---- MODULE Spec2Model ----
(***************************************************************************)
(* Market data feed of ICTBOT2: the OHLCV aggregator, the market data      *)
(* manager (cache and persistence), the asynchronous rate limiter, the     *)
(* provider's reconnecting trade stream and the data feed service.         *)
(*                                                                         *)
(* Scaling.  Prices are kept in tenths (100.0 is 1000) and quantities in   *)
(* hundredths (0.25 is 25) so that the floats of the source are exact      *)
(* integers here.  A datetime is a record [ts, tz]: ts is the POSIX        *)
(* instant in seconds, tz the name of its tzinfo ("NAIVE" for none).       *)
(* Candles are objects: heap is the store of candle objects and every      *)
(* deque or list of the program holds references (indices of heap).        *)
(***************************************************************************)
EXTENDS Integers, Sequences, FiniteSets, TLC

VARIABLES
    heap,       \* the OhlcvCandle objects allocated so far
    buffers,    \* OhlcvAggregator._buffers: timeframe -> deque of references
    cache,      \* MarketDataManager._cache: timeframe -> list of references
    file,       \* the persisted state file at persist_path
    lastCall,   \* the last operation called, its arguments and its outcome
    held,       \* the list a caller got from get_candles and still holds
    heldAt,     \* the candles of that list as they were when it was returned
    fed,        \* the ticks folded into this aggregator, in order
    seeded,     \* whether seed was ever called on this aggregator
    nCalls,     \* number of calls made that changed the aggregator
    rlStamps,   \* AsyncRateLimiter._timestamps, as ages (now - timestamp)
    rlPc,       \* per caller: "idle" (not in acquire) or "sleeping" (in its sleep)
    rlSleep,    \* per caller: what remains of its asyncio.sleep
    rlCalls,    \* per caller: acquire calls started
    rlGrants,   \* ages of the acquisitions granted less than a period ago
    rlDue,      \* per caller: when it called with the window full, the time
                \* left until the earliest grant of that window leaves it
    rlSleeps,   \* per caller: the sleeps of its current call (0, 1, 2 for more)
    stPc,       \* stream_trades: "connect", "read", "sleep" (the await it is
                \* blocked in), "cancelled" or "returned" (how it ended)
    stBackoff,  \* stream_trades: the local variable backoff
    stWait,     \* the duration of the asyncio.sleep in progress or last made
    stInbox,    \* the messages the open websocket has still to deliver
    stEnd,      \* how the open websocket ends after them: "close" or "error"
    stCancelReq,  \* the consuming task was cancelled and has not yet seen it
    stAttempt,  \* connection attempts made so far (MaxAttempts stands for more)
    stFirstFailed,  \* whether the first connection attempt raised
    stOpened,   \* whether the latest connection attempt opened a connection
    stEverOpened,  \* whether any connection attempt opened a connection
    stPrevWait, \* the wait before the latest one (0 when there was none), and
    stOpenedSince,  \* whether a connection opened between the two
    stConnMsgs, \* the messages of the latest connection, as the server sent them
    stConnGot,  \* the ticks the consumer received from the latest connection
    svTask,     \* DataFeedService._task: "none", or the task's state "running",
                \* "finished" (returned), "failed" (raised) or "cancelled"
    svStopEvent,  \* DataFeedService._stop_event is set
    svCancel,   \* the task was cancelled and has not yet run since
    svStopping, \* stop() holds the lock and awaits the task
    svRecent,   \* DataFeedService._recent_ticks
    svLatest,   \* DataFeedService._latest_tick
    provider,   \* the BinanceDataProvider: whether it was constructed, its
                \* _owns_http_client, its HTTP client ("open" or "closed")
                \* and the close() calls made on it
    cLock,      \* MarketDataManager._lock: "free", or "ingest" while the
                \* thread in ingest_tick holds it
    cIngest,    \* the thread calling ingest_tick: where it is, its localized
                \* tick, the timeframe and the field write it has reached,
                \* and what update makes of the state the lock was taken in
    cBatch,     \* the thread calling seed_batch: where it is, its payload
                \* and how many of its timeframes it has seeded
    cReader,    \* the reading thread: the candles its last get_slice or
                \* get_latest returned, the last look it took at one of them,
                \* and whether its last call ran between two seeds of a batch
    cVersions,  \* per candle object: its states after whole ingest_tick calls
    svSeen,     \* the ticks handled since start() last cleared the ring buffer
                \* (the newest TickBufferSize + 1 of them)
    svQuiet,    \* stop() has set the stop event and no task was created since
    svLate,     \* a tick was handled while svQuiet
    svLast,     \* the last call on the service and its outcome
    svSnap,     \* the snapshot a caller got last and still holds
    svSnapAt,   \* what that snapshot showed when it was returned
    svLock,     \* DataFeedService._lock and the coroutines calling start()
                \* and stop(): whether it is locked, who waits for it in
                \* order, where each caller stands, and how many tasks
                \* made by start() are not done
    psPath,     \* MarketDataManager._persist_path
    psTemp,     \* the file at the temporary path, when that is another path
    psPc,       \* where _persist_state_locked stands: "idle" (not running),
                \* "open", "write" or "rename" (the call it makes next)
    psSnap,     \* the snapshot the running persist step writes
    psDone,     \* the snapshots of the persist steps that have completed
    psBefore,   \* the file at the persist path when the last persist step began
    psLast      \* how the persist step of the last operation ended: "written",
                \* "failed" (an OSError was logged) or "none" (it has not
                \* ended, or the operation ran none)

aggVars == <<heap, buffers, held, heldAt, fed, seeded, nCalls>>
mgrVars == <<cache, file>>
rlVars  == <<rlStamps, rlPc, rlSleep, rlCalls, rlGrants, rlDue, rlSleeps>>
stVars  == <<stPc, stBackoff, stWait, stInbox, stEnd, stCancelReq, stAttempt,
             stFirstFailed, stOpened, stEverOpened, stPrevWait, stOpenedSince,
             stConnMsgs, stConnGot>>
svcVars == <<svTask, svStopEvent, svCancel, svStopping, svRecent, svLatest, svSeen,
             svQuiet, svLate, svLast, svSnap, svSnapAt, svLock>>
psVars  == <<psPath, psTemp, psPc, psSnap, psDone, psBefore, psLast>>
pvVars  == <<provider>>
ccVars  == <<cLock, cIngest, cBatch, cReader, cVersions>>
feedVars == <<stVars, svcVars, psVars, pvVars, ccVars>>
vars    == <<heap, buffers, cache, file, lastCall, held, heldAt, fed, seeded,
             nCalls,
             rlStamps, rlPc, rlSleep, rlCalls, rlGrants, rlDue, rlSleeps,
             feedVars>>

----------------------------------------------------------------------------
(* Bounds of the model *)

MaxCalls == 3
MaxLength == 2

(* 2024-01-01T15:00:00Z, the hour the tests' make_tick starts from *)
Base == 1704121200

----------------------------------------------------------------------------
(* Sequence helpers *)

Last(s) == s[Len(s)]

RECURSIVE SeqMax(_)
SeqMax(s) == IF Len(s) = 1 THEN s[1]
             ELSE LET m == SeqMax(Tail(s)) IN IF s[1] >= m THEN s[1] ELSE m

RECURSIVE SeqMin(_)
SeqMin(s) == IF Len(s) = 1 THEN s[1]
             ELSE LET m == SeqMin(Tail(s)) IN IF s[1] <= m THEN s[1] ELSE m

RECURSIVE SeqSum(_)
SeqSum(s) == IF s = <<>> THEN 0 ELSE s[1] + SeqSum(Tail(s))

Max2(a, b) == IF a >= b THEN a ELSE b
Min2(a, b) == IF a <= b THEN a ELSE b

----------------------------------------------------------------------------
(* types.py *)

ARGENTINA_TIMEZONE == "ART"

Duration(tf) ==
    CASE tf = "1m"  -> 60
      [] tf = "5m"  -> 300
      [] tf = "15m" -> 900
      [] tf = "1h"  -> 3600
      [] tf = "4h"  -> 14400
      [] tf = "1d"  -> 86400

(* The timeframes the aggregator and the manager are constructed with. *)
Timeframes == <<"1m", "5m">>
TFSet == {Timeframes[i] : i \in DOMAIN Timeframes}

DT(ts, tz) == [ts |-> ts, tz |-> tz]
Aware(dt) == dt.tz # "NAIVE"
(* datetime.astimezone: the same instant under another tzinfo *)
AsTimezone(dt, tz) == [ts |-> dt.ts, tz |-> tz]
(* datetime.__eq__: aware datetimes are equal when their instants are; an
   aware and a naive one are never equal *)
DtEq(a, b) == (Aware(a) = Aware(b)) /\ a.ts = b.ts

TradeTick(price, quantity, timestamp) ==
    [price |-> price, quantity |-> quantity, timestamp |-> timestamp]

OhlcvCandle(tf, open_time, close_time, o, h, l, c, v) ==
    [open_time |-> open_time, close_time |-> close_time, timeframe |-> tf,
     open |-> o, high |-> h, low |-> l, close |-> c, volume |-> v]

----------------------------------------------------------------------------
(* aggregator.py *)

(* A floor that only converts the timezone. *)
FloorTimestampNoFloor(dt, delta, tz) == AsTimezone(dt, tz)

(* _floor_timestamp: the start of the bucket of length delta that holds dt,
   counted from the epoch, under tz *)
FloorTimestamp(dt, delta, tz) ==
    LET localized == AsTimezone(dt, tz)
        timestamp == localized.ts
        floored   == timestamp - (timestamp % delta)
    IN  DT(floored, tz)

(* An append that drops the new entry when the deque is full. *)
DequeAppendKeepOld(buf, x, maxlen) == IF Len(buf) >= maxlen THEN buf ELSE Append(buf, x)

(* deque(maxlen=n).append: the oldest entries fall out on overflow *)
DequeAppend(buf, x, maxlen) ==
    LET s == Append(buf, x)
    IN  IF Len(s) > maxlen THEN SubSeq(s, Len(s) - maxlen + 1, Len(s)) ELSE s

(* A merge that leaves high as it was. *)
MergeTickNoHigh(candle, tick, frame_end) ==
    [candle EXCEPT !.low = Min2(candle.low, tick.price),
                   !.close = tick.price,
                   !.volume = candle.volume + tick.quantity,
                   !.close_time = frame_end]

(* A merge that leaves close as it was. *)
MergeTickNoClose(candle, tick, frame_end) ==
    [candle EXCEPT !.high = Max2(candle.high, tick.price),
                   !.low = Min2(candle.low, tick.price),
                   !.volume = candle.volume + tick.quantity,
                   !.close_time = frame_end]

(* The in-place merge of a tick into the newest candle. *)
MergeTick(candle, tick, frame_end) ==
    [candle EXCEPT !.high = Max2(candle.high, tick.price),
                   !.low = Min2(candle.low, tick.price),
                   !.close = tick.price,
                   !.volume = candle.volume + tick.quantity,
                   !.close_time = frame_end]

(* The merge of _upsert_candle up to and including its k-th assignment, in
   program order: high, low, close, volume, close_time. *)
MergeWrite(candle, tick, frame_end, k) ==
    CASE k = 1 -> [candle EXCEPT !.high = Max2(candle.high, tick.price)]
      [] k = 2 -> [candle EXCEPT !.low = Min2(candle.low, tick.price)]
      [] k = 3 -> [candle EXCEPT !.close = tick.price]
      [] k = 4 -> [candle EXCEPT !.volume = candle.volume + tick.quantity]
      [] k = 5 -> [candle EXCEPT !.close_time = frame_end]

MergeWrites == 5

(* An upsert that merges into whichever candle of the deque has the tick's
   bucket. *)
UpsertCandleAnyBucket(h, buf, tf, tick, tz) ==
    LET frame_start == FloorTimestamp(tick.timestamp, Duration(tf), tz)
        frame_end   == DT(frame_start.ts + Duration(tf), tz)
        same == {i \in DOMAIN buf : DtEq(h[buf[i]].open_time, frame_start)}
    IN  IF same # {}
        THEN LET ref == buf[CHOOSE i \in same : TRUE] IN
             [heap |-> [h EXCEPT ![ref] = MergeTick(h[ref], tick, frame_end)],
              buf  |-> buf]
        ELSE [heap |-> Append(h, OhlcvCandle(tf, frame_start, frame_end,
                                   tick.price, tick.price, tick.price, tick.price,
                                   tick.quantity)),
              buf  |-> DequeAppend(buf, Len(h) + 1, MaxLength)]

(* _upsert_candle on one timeframe's deque; the result is the new heap and
   the new deque. *)
UpsertCandle(h, buf, tf, tick, tz) ==
    LET frame_start == FloorTimestamp(tick.timestamp, Duration(tf), tz)
        frame_end   == DT(frame_start.ts + Duration(tf), tz)
    IN  IF Len(buf) > 0 /\ DtEq(h[Last(buf)].open_time, frame_start)
        THEN [heap |-> [h EXCEPT ![Last(buf)] = MergeTick(h[Last(buf)], tick, frame_end)],
              buf  |-> buf]
        ELSE [heap |-> Append(h, OhlcvCandle(tf, frame_start, frame_end,
                                   tick.price, tick.price, tick.price, tick.price,
                                   tick.quantity)),
              buf  |-> DequeAppend(buf, Len(h) + 1, MaxLength)]

(* _localize_tick of the aggregator: the caller has checked tzinfo *)
LocalizeTick(tick, tz) ==
    IF tick.timestamp.tz = tz THEN tick
    ELSE [tick EXCEPT !.timestamp = AsTimezone(tick.timestamp, tz)]

(* The loop of update over the timeframes first..Len(Timeframes). *)
RECURSIVE UpdateFrom(_, _, _, _)
UpdateFrom(i, h, bufs, tick) ==
    IF i > Len(Timeframes) THEN [heap |-> h, buffers |-> bufs]
    ELSE LET tf == Timeframes[i]
             r  == UpsertCandle(h, bufs[tf], tf, tick, ARGENTINA_TIMEZONE)
         IN  UpdateFrom(i + 1, r.heap, [bufs EXCEPT ![tf] = r.buf], tick)

(* An update that does not look at tzinfo. *)
AggUpdateUnchecked(h, bufs, tick) ==
    LET r == UpdateFrom(1, h, bufs, LocalizeTick(tick, ARGENTINA_TIMEZONE))
    IN  [heap |-> r.heap, buffers |-> r.buffers, err |-> "none"]

(* OhlcvAggregator.update: err is "ValueError" for a naive timestamp, and
   then nothing was touched. *)
AggUpdate(h, bufs, tick) ==
    IF ~Aware(tick.timestamp)
    THEN [heap |-> h, buffers |-> bufs, err |-> "ValueError"]
    ELSE LET r == UpdateFrom(1, h, bufs, LocalizeTick(tick, ARGENTINA_TIMEZONE))
         IN  [heap |-> r.heap, buffers |-> r.buffers, err |-> "none"]

(* The candles in the order given. *)
NotSorted(s) == s

RECURSIVE InsertSorted(_, _)
InsertSorted(s, c) ==
    IF s = <<>> THEN <<c>>
    ELSE IF c.open_time.ts < Last(s).open_time.ts
         THEN Append(InsertSorted(SubSeq(s, 1, Len(s) - 1), c), Last(s))
         ELSE Append(s, c)

(* sorted(candles, key=open_time): a stable insertion sort on the instants *)
RECURSIVE SortedByOpenTime(_)
SortedByOpenTime(s) ==
    IF s = <<>> THEN <<>>
    ELSE InsertSorted(SortedByOpenTime(SubSeq(s, 1, Len(s) - 1)), Last(s))

(* Comparing a naive open_time with an aware one raises TypeError inside
   sorted; a sort of two or more keys always compares such a pair. *)
SortRaises(candles) ==
    /\ Len(candles) >= 2
    /\ \E i, j \in DOMAIN candles :
          Aware(candles[i].open_time) /\ ~Aware(candles[j].open_time)

(* _ensure_timezone, for a candle with both times aware *)
EnsureTimezone(candle, tz) ==
    IF candle.open_time.tz = tz /\ candle.close_time.tz = tz THEN candle
    ELSE [candle EXCEPT !.open_time = AsTimezone(candle.open_time, tz),
                        !.close_time = AsTimezone(candle.close_time, tz)]

(* The loop of seed over the sorted candles from position i on. *)
RECURSIVE SeedFrom(_, _, _, _)
SeedFrom(i, h, buf, sorted) ==
    IF i > Len(sorted) THEN [heap |-> h, buf |-> buf, err |-> "none"]
    ELSE IF ~Aware(sorted[i].open_time) \/ ~Aware(sorted[i].close_time)
         THEN [heap |-> h, buf |-> buf, err |-> "ValueError"]
         ELSE SeedFrom(i + 1,
                       Append(h, EnsureTimezone(sorted[i], ARGENTINA_TIMEZONE)),
                       DequeAppend(buf, Len(h) + 1, MaxLength), sorted)

(* OhlcvAggregator.seed on one timeframe's deque: the deque is cleared
   first, then the candles are sorted, normalised and appended. *)
AggSeed(h, candles) ==
    IF SortRaises(candles)
    THEN [heap |-> h, buf |-> <<>>, err |-> "TypeError"]
    ELSE SeedFrom(1, h, <<>>, SortedByOpenTime(candles))

(* OhlcvAggregator.get_candles: list(buffer), a new list of the same objects *)
GetCandles(bufs, tf) == bufs[tf]

(* The candles a list of references shows now. *)
Deref(h, refs) == [i \in DOMAIN refs |-> h[refs[i]]]

(* The buffers of a new aggregator *)
EmptyBuffers == [tf \in TFSet |-> <<>>]

(* Python's None, for an optional argument or result; a value v is <<v>>. *)
None == <<>>

----------------------------------------------------------------------------
(* market_data_manager.py *)

(* history_limit, which the manager also hands to its aggregator as
   max_length *)
HistoryLimit == MaxLength

(* The offset a tzinfo puts into isoformat(), in seconds. *)
UtcOffset(tz) ==
    CASE tz = "ART" -> -10800
      [] tz = "FIXED-03:00" -> -10800
      [] tz = "UTC" -> 0
      [] tz = "IST" -> 19800

(* datetime.isoformat(): the wall clock reading and the offset *)
IsoFormat(dt) ==
    IF Aware(dt) THEN [wall |-> dt.ts + UtcOffset(dt.tz), offset |-> <<UtcOffset(dt.tz)>>]
    ELSE [wall |-> dt.ts, offset |-> <<>>]

(* datetime.fromisoformat(): the tzinfo is a fixed-offset timezone, which
   is timezone.utc for offset 0 and never a ZoneInfo *)
FromIsoFormat(iso) ==
    IF iso.offset = <<>> THEN DT(iso.wall, "NAIVE")
    ELSE DT(iso.wall - iso.offset[1],
            IF iso.offset[1] = 0 THEN "UTC" ELSE "FIXED-03:00")

(* OhlcvCandle.as_dict *)
AsDict(candle) ==
    [open_time |-> IsoFormat(candle.open_time),
     close_time |-> IsoFormat(candle.close_time),
     timeframe |-> candle.timeframe,
     open |-> candle.open, high |-> candle.high, low |-> candle.low,
     close |-> candle.close, volume |-> candle.volume]

(* _deserialize_candle of an entry that has every key *)
DeserializeCandle(payload, tf) ==
    OhlcvCandle(tf, FromIsoFormat(payload.open_time), FromIsoFormat(payload.close_time),
                payload.open, payload.high, payload.low, payload.close, payload.volume)

(* A synchronisation that keeps the newest candle only. *)
SyncCacheNewestOnly(bufs) ==
    [tf \in TFSet |-> IF bufs[tf] = <<>> THEN <<>> ELSE <<Last(bufs[tf])>>]

(* _sync_cache_locked *)
SyncCache(bufs) ==
    [tf \in TFSet |->
        LET candles == GetCandles(bufs, tf) IN
        IF Len(candles) > HistoryLimit
        THEN SubSeq(candles, Len(candles) - HistoryLimit + 1, Len(candles))
        ELSE candles]

(* snapshot(): the candles of the cache, serialised *)
Snapshot(h, c) ==
    [tf \in TFSet |-> [i \in DOMAIN c[tf] |-> AsDict(h[c[tf][i]])]]

(* A file: whether it exists and what read_text and json.loads make of it,
   "object" (a JSON object), "other" (JSON that is not an object),
   "invalid" (not JSON) or "unreadable" (read_text raises OSError); for an
   object, the candle entries under "timeframes". *)
File(form, timeframes) == [exists |-> TRUE, form |-> form, timeframes |-> timeframes]

NoEntries == [tf \in TFSet |-> <<>>]

(* The document json.dumps(snapshot) makes. *)
Document(snap) == File("object", snap)

(* What write_text leaves at a path it has opened and not yet written in
   full: an empty or truncated document. *)
Truncated == File("invalid", NoEntries)

(* Path.with_suffix: a path is its stem and its suffix. *)
Path(stem, suffix) == [stem |-> stem, suffix |-> suffix]
WithSuffix(path, suffix) == [path EXCEPT !.suffix = suffix]

(* temp_path of _persist_state_locked *)
TempPath(path) == WithSuffix(path, ".tmp")

(* _persist_state_locked when the write and the rename succeed *)
PersistState(h, c) == Document(Snapshot(h, c))

(* The keys _deserialize_candle reads from an entry ("symbol", the same in
   every entry, is left out of the entries here). *)
CandleKeys == {"open_time", "close_time", "open", "high", "low", "close", "volume"}

(* The keys of an entry whose value is text that float() or fromisoformat()
   rejects; an entry written by as_dict has none. *)
Rejected(payload) == IF "rejected" \in DOMAIN payload THEN payload.rejected ELSE {}

(* _deserialize_candle raises ValueError: for a missing key (from the
   KeyError), from fromisoformat or from float. *)
DeserializeRaises(payload) ==
    \/ \E k \in CandleKeys : k \notin DOMAIN payload
    \/ Rejected(payload) \cap CandleKeys # {}

(* _localize_tick of the manager *)
MgrLocalizeTick(tick, tz) ==
    IF tick.timestamp.tz = tz THEN tick
    ELSE TradeTick(tick.price, tick.quantity, AsTimezone(tick.timestamp, tz))

(* The loop of _load_persisted_state over the timeframes from i on. *)
RECURSIVE LoadFrom(_, _, _, _)
LoadFrom(i, h, bufs, payload) ==
    IF i > Len(Timeframes) THEN [heap |-> h, buffers |-> bufs, err |-> "none"]
    ELSE LET tf == Timeframes[i]
             entries == payload[tf]
         IN  IF entries = <<>> THEN LoadFrom(i + 1, h, bufs, payload)
             ELSE IF \E k \in DOMAIN entries : DeserializeRaises(entries[k])
             THEN [heap |-> h, buffers |-> bufs, err |-> "ValueError"]
             ELSE LET candles == [k \in DOMAIN entries |-> DeserializeCandle(entries[k], tf)]
                      r == AggSeed(h, candles)
                  IN  IF r.err # "none"
                      THEN [heap |-> r.heap, buffers |-> [bufs EXCEPT ![tf] = r.buf],
                            err |-> r.err]
                      ELSE LoadFrom(i + 1, r.heap, [bufs EXCEPT ![tf] = r.buf], payload)

(* MarketDataManager.__init__ over the state file f: the new manager's
   aggregator and cache.  Only OSError and JSONDecodeError are caught;
   payload.get of a document that is not an object raises AttributeError. *)
LoadPersistedState(f) ==
    IF ~f.exists \/ f.form \in {"unreadable", "invalid"}
    THEN [heap |-> <<>>, buffers |-> EmptyBuffers, cache |-> EmptyBuffers, err |-> "none"]
    ELSE IF f.form # "object"
    THEN [heap |-> <<>>, buffers |-> EmptyBuffers, cache |-> EmptyBuffers,
          err |-> "AttributeError"]
    ELSE LET r == LoadFrom(1, <<>>, EmptyBuffers, f.timeframes)
         IN  [heap |-> r.heap, buffers |-> r.buffers,
              cache |-> IF r.err = "none" THEN SyncCache(r.buffers) ELSE EmptyBuffers,
              err |-> r.err]

(* get_latest: None is <<>>, a candle c is <<c>> *)
GetLatest(c, tf) == IF c[tf] # <<>> THEN <<Last(c[tf])>> ELSE <<>>

(* Python's s[start:] *)
PySliceFrom(s, start) ==
    LET n == Len(s)
        from == IF start < 0 THEN Max2(n + start, 0) ELSE Min2(start, n)
    IN  SubSeq(s, from + 1, n)

(* A slice without the guard for limit <= 0. *)
GetSliceNoFloor(c, tf, limit) ==
    LET candles == c[tf] IN
    IF candles = <<>> THEN <<>>
    ELSE IF limit = None \/ limit[1] >= Len(candles) THEN candles
    ELSE PySliceFrom(candles, -limit[1])

(* get_slice *)
GetSlice(c, tf, limit) ==
    LET candles == c[tf] IN
    IF candles = <<>> THEN <<>>
    ELSE IF limit = None \/ limit[1] >= Len(candles) THEN candles
    ELSE IF limit[1] <= 0 THEN <<>>
    ELSE PySliceFrom(candles, -limit[1])

HighsOf(h, refs) == [i \in DOMAIN refs |-> h[refs[i]].high]
LowsOf(h, refs) == [i \in DOMAIN refs |-> h[refs[i]].low]

(* A rolling high over the whole cache. *)
GetRollingHighOfAll(h, c, tf, window) ==
    IF window <= 0 THEN [err |-> "ValueError", result |-> <<>>, reads |-> 0]
    ELSE LET candles == GetSlice(c, tf, None) IN
         IF candles = <<>> THEN [err |-> "none", result |-> <<>>, reads |-> 1]
         ELSE [err |-> "none", result |-> <<SeqMax(HighsOf(h, candles))>>, reads |-> 1]

(* get_rolling_high; reads counts the get_slice calls made *)
GetRollingHigh(h, c, tf, window) ==
    IF window <= 0 THEN [err |-> "ValueError", result |-> <<>>, reads |-> 0]
    ELSE LET candles == GetSlice(c, tf, <<window>>) IN
         IF candles = <<>> THEN [err |-> "none", result |-> <<>>, reads |-> 1]
         ELSE [err |-> "none", result |-> <<SeqMax(HighsOf(h, candles))>>, reads |-> 1]

(* get_rolling_low *)
GetRollingLow(h, c, tf, window) ==
    IF window <= 0 THEN [err |-> "ValueError", result |-> <<>>, reads |-> 0]
    ELSE LET candles == GetSlice(c, tf, <<window>>) IN
         IF candles = <<>> THEN [err |-> "none", result |-> <<>>, reads |-> 1]
         ELSE [err |-> "none", result |-> <<SeqMin(LowsOf(h, candles))>>, reads |-> 1]

----------------------------------------------------------------------------
(* rate_limit.py.  Time is kept relative: a recorded timestamp is its age
   now - timestamp, and an age that has reached the period stays there,
   since the code only asks whether now - timestamp >= period. *)

RlMaxCalls == 2
RlPeriod == 3
MaxAcquires == 2

(* An eviction one time unit before the period is over. *)
RECURSIVE EvictEarly(_)
EvictEarly(stamps) ==
    IF stamps # <<>> /\ stamps[1] >= RlPeriod - 1 THEN EvictEarly(Tail(stamps))
    ELSE stamps

(* No eviction at all. *)
NeverEvict(stamps) == stamps

(* while self._timestamps and now - self._timestamps[0] >= self._period:
       self._timestamps.popleft() *)
RECURSIVE EvictExpired(_)
EvictExpired(stamps) ==
    IF stamps # <<>> /\ stamps[1] >= RlPeriod THEN EvictExpired(Tail(stamps))
    ELSE stamps

(* One pass of the loop of acquire under the lock: the timestamps left,
   whether the call is granted, and the sleep computed when it is not. *)
AcquirePass(stamps) ==
    LET kept == EvictExpired(stamps) IN
    IF Len(kept) < RlMaxCalls
    THEN [stamps |-> Append(kept, 0), granted |-> TRUE, wait_time |-> 0]
    ELSE [stamps |-> kept, granted |-> FALSE, wait_time |-> RlPeriod - kept[1]]

----------------------------------------------------------------------------
(* providers.py: BinanceDataProvider.stream_trades and _consume_stream *)

MAX_BACKOFF_SECONDS == 30
InitialBackoff == 1
MaxAttempts == 7

(* A doubling without the ceiling. *)
NextBackoffUncapped(backoff) == backoff * 2

(* backoff = min(backoff * 2, self.MAX_BACKOFF_SECONDS) *)
NextBackoff(backoff) == Min2(backoff * 2, MAX_BACKOFF_SECONDS)

(* A trade message {"p": price, "q": quantity, "T": milliseconds}.  T is
   kept as whole seconds s and milliseconds ms, T = 1000 * s + ms. *)
Message(p, q, s) == [p |-> p, q |-> q, T |-> [s |-> s, ms |-> 0]]

(* The tick _consume_stream builds from a message: the instant T / 1000
   taken as UTC and expressed in ARGENTINA_TIMEZONE. *)
DecodeMessage(m) ==
    TradeTick(m.p, m.q, AsTimezone(DT(m.T.s, "UTC"), ARGENTINA_TIMEZONE))

(* A consumption that loses the message after the one delivered. *)
AfterMessageSkip(inbox) == IF Len(inbox) > 1 THEN Tail(Tail(inbox)) ELSE <<>>

(* async for message in websocket: what is left after one message *)
AfterMessage(inbox) == Tail(inbox)

(* A handler that treats a cancellation like any other error. *)
OnRaiseCatchAll(exc, backoff) == [pc |-> "sleep", wait |-> backoff]

(* A handler that lets an error out to the consumer of the stream. *)
OnRaiseToConsumer(exc, backoff) ==
    IF exc = "CancelledError" THEN [pc |-> "cancelled", wait |-> 0]
    ELSE [pc |-> "raised", wait |-> 0]

(* The except clauses of stream_trades for an exception raised inside the
   try block: CancelledError is raised again, any other exception is logged
   and followed by asyncio.sleep(backoff). *)
OnRaise(exc, backoff) ==
    IF exc = "CancelledError" THEN [pc |-> "cancelled", wait |-> 0]
    ELSE [pc |-> "sleep", wait |-> backoff]

(* A loop that backs off after a connection that ended without an
   exception as it does after an error. *)
OnCleanCloseSleep == [pc |-> "sleep", backoff |-> InitialBackoff]

(* The async for over the connection ended without an exception: backoff
   is reset and the while loop goes round. *)
OnCleanClose == [pc |-> "connect", backoff |-> InitialBackoff]

(* A timestamp of the exchange in epoch milliseconds, 1000 * s + ms *)
Millis(s, ms) == [s |-> s, ms |-> ms]

(* datetime.fromtimestamp(t / 1000, tz=timezone.utc).astimezone(tz): the
   whole seconds of the instant and, when it has any, its microseconds,
   under tz *)
FromTimestamp(t, tz) ==
    IF t.ms = 0 THEN AsTimezone(DT(t.s, "UTC"), tz)
    ELSE [ts |-> t.s, tz |-> tz, us |-> 1000 * t.ms]

(* datetime.microsecond *)
Microsecond(dt) == IF "us" \in DOMAIN dt THEN dt.us ELSE 0

(* One entry of the klines payload: entry[0] is the open time and entry[6]
   the close time, both in milliseconds; entry[1..5] are open, high, low,
   close and volume. *)
Kline(open_ms, o, h, l, c, v, close_ms) == <<open_ms, o, h, l, c, v, close_ms>>

(* fetch_recent_candles, from the payload of the response on: one candle per
   entry, its times converted from UTC milliseconds to ARGENTINA_TIMEZONE *)
FetchRecentCandles(tf, payload) ==
    [i \in DOMAIN payload |->
        LET entry == payload[i]
            open_time  == FromTimestamp(entry[1], ARGENTINA_TIMEZONE)
            close_time == FromTimestamp(entry[7], ARGENTINA_TIMEZONE)
        IN OhlcvCandle(tf, open_time, close_time,
                       entry[2], entry[3], entry[4], entry[5], entry[6])]

(* BinanceDataProvider.__init__: the provider owns the client it made
   itself; closes counts the close() calls. *)
NewProvider(external) ==
    [state |-> "ready", owns |-> ~external, client |-> "open", closes |-> 0]

(* A close() that closes whatever client it holds. *)
ProviderCloseAlways(p) == [p EXCEPT !.client = "closed", !.closes = @ + 1]

(* BinanceDataProvider.close *)
ProviderClose(p) ==
    IF p.owns THEN [p EXCEPT !.client = "closed", !.closes = @ + 1]
    ELSE [p EXCEPT !.closes = @ + 1]

----------------------------------------------------------------------------
(* Inputs *)

T1 == TradeTick(1000, 25, DT(Base, "UTC"))
T2 == TradeTick(1020, 10, DT(Base + 30, "UTC"))
T3 == TradeTick(1015, 30, DT(Base + 60, "UTC"))
T4 == TradeTick(990, 5, DT(Base + 300, "ART"))
TNaive == TradeTick(1000, 25, DT(Base, "NAIVE"))
Ticks == {T1, T2, T3, T4, TNaive}

(* A historical candle of timeframe tf opening at ts, its open_time under
   tzinfo tz and its close_time under ctz; k varies its prices. *)
SeedCandle(tf, ts, tz, ctz, k) ==
    OhlcvCandle(tf, DT(ts, tz), DT(ts + Duration(tf), ctz),
                1000 + k, 1010 + k, 990 + k, 1005 + k, 50)

SeedInputs(tf) ==
    LET d == Duration(tf) IN
    { <<SeedCandle(tf, Base, "UTC", "UTC", 0),
        SeedCandle(tf, Base - d, "UTC", "UTC", 1)>>,
      [i \in 1..(MaxLength + 1) |-> SeedCandle(tf, Base - i * d, "ART", "ART", i)],
      <<SeedCandle(tf, Base - 2 * d, "ART", "ART", 2),
        SeedCandle(tf, Base - d, "ART", "NAIVE", 1)>> }

(* The trade messages a connection may carry, and how it may end. *)
M1 == Message(1000, 25, Base)
M2 == Message(1020, 10, Base + 30)
Scripts ==
    {[msgs |-> m, end |-> e] : m \in {<<>>, <<M1>>, <<M1, M2>>, <<M2, M1>>},
                               e \in {"close", "error"}}

----------------------------------------------------------------------------
(* service.py: DataFeedService *)

TickBufferSize == 2

(* TradeTick.as_dict *)
TickAsDict(tick) ==
    [price |-> tick.price, quantity |-> tick.quantity,
     timestamp |-> IsoFormat(tick.timestamp)]

(* A localisation that leaves a naive timestamp naive. *)
HandleTickLocalizeKeepNaive(tick) ==
    IF ~Aware(tick.timestamp) THEN tick
    ELSE [tick EXCEPT !.timestamp = AsTimezone(tick.timestamp, ARGENTINA_TIMEZONE)]

(* _handle_tick, the localisation: a naive timestamp is taken as UTC *)
HandleTickLocalize(tick) ==
    LET timestamp == IF ~Aware(tick.timestamp) THEN DT(tick.timestamp.ts, "UTC")
                     ELSE tick.timestamp
    IN  [tick EXCEPT !.timestamp = AsTimezone(timestamp, ARGENTINA_TIMEZONE)]

(* A guard that never finds the service running. *)
StartGuardNever(task) == FALSE

(* start: self._task and not self._task.done() *)
StartGuard(task) == task = "running"

(* What fetch_recent_candles returns for a timeframe: nothing, or two
   candles, newest first, under UTC. *)
Backfill(tf, hist) ==
    IF hist = "two"
    THEN <<SeedCandle(tf, Base, "UTC", "UTC", 0),
           SeedCandle(tf, Base - Duration(tf), "UTC", "UTC", 1)>>
    ELSE <<>>

(* The loop of _seed_history from timeframe i on; the fetch of timeframe
   failAt raises (0: none does).  fetches counts the backfill calls made. *)
RECURSIVE SeedHistoryFrom(_, _, _, _, _)
SeedHistoryFrom(i, h, bufs, failAt, hist) ==
    IF i > Len(Timeframes)
    THEN [heap |-> h, buffers |-> bufs, err |-> "none", fetches |-> i - 1]
    ELSE IF failAt = i
    THEN [heap |-> h, buffers |-> bufs, err |-> "ProviderError", fetches |-> i]
    ELSE LET tf == Timeframes[i]
             r  == AggSeed(h, Backfill(tf, hist))
         IN  IF r.err # "none"
             THEN [heap |-> r.heap, buffers |-> [bufs EXCEPT ![tf] = r.buf],
                   err |-> r.err, fetches |-> i]
             ELSE SeedHistoryFrom(i + 1, r.heap, [bufs EXCEPT ![tf] = r.buf],
                                  failAt, hist)

(* A backfill whose failures are swallowed. *)
SeedHistoryIgnoreFailure(h, bufs, failAt, hist) ==
    [SeedHistoryFrom(1, h, bufs, failAt, hist) EXCEPT !.err = "none"]

(* _seed_history, after it cleared the ring buffer and the latest tick *)
SeedHistory(h, bufs, failAt, hist) == SeedHistoryFrom(1, h, bufs, failAt, hist)

(* snapshot: the ticks shown *)
SnapshotTicks(recent, max_ticks) ==
    IF max_ticks = None THEN recent
    ELSE IF max_ticks[1] <= 0 THEN <<>>
    ELSE PySliceFrom(recent, 0 - max_ticks[1])

(* An entry of a returned candle list is a dict built by as_dict, or (were
   the candle object itself handed out) a reference; ViewEntry is what its
   holder reads from it now. *)
CandleEntryShared(h, ref) == [kind |-> "ref", ref |-> ref]

CandleEntry(h, ref) == [kind |-> "dict", val |-> AsDict(h[ref])]

ViewEntry(h, e) == IF e.kind = "ref" THEN AsDict(h[e.ref]) ELSE e.val

(* DataFeedService.snapshot *)
ServiceSnapshot(h, bufs, recent, latest, max_ticks) ==
    LET ticks == SnapshotTicks(recent, max_ticks) IN
    [latest_tick |-> IF latest # None THEN <<TickAsDict(latest[1])>> ELSE None,
     recent_ticks |-> [i \in DOMAIN ticks |-> TickAsDict(ticks[i])],
     ohlcv |-> [tf \in TFSet |->
                  [i \in DOMAIN GetCandles(bufs, tf) |->
                      CandleEntry(h, GetCandles(bufs, tf)[i])]]]

ViewSnapshot(h, snap) ==
    [snap EXCEPT !.ohlcv = [tf \in TFSet |->
        [i \in DOMAIN snap.ohlcv[tf] |-> ViewEntry(h, snap.ohlcv[tf][i])]]]

----------------------------------------------------------------------------
(* State shared by the specifications *)

(* The record of a call: reads counts the cache reads it made. *)
Call(op, tf, arg, err, result) ==
    [op |-> op, tf |-> tf, arg |-> arg, err |-> err, result |-> result, reads |-> 0]

NoFile == [exists |-> FALSE, form |-> "none", timeframes |-> NoEntries]

Callers == {"a", "b", "c"}

AggInit ==
    /\ heap = <<>>
    /\ buffers = EmptyBuffers
    /\ held = <<>>
    /\ heldAt = <<>>
    /\ fed = <<>>
    /\ seeded = FALSE
    /\ nCalls = 0

MgrInit ==
    /\ cache = EmptyBuffers
    /\ file = NoFile

RlInit ==
    /\ rlStamps = <<>>
    /\ rlPc = [c \in Callers |-> "idle"]
    /\ rlSleep = [c \in Callers |-> 0]
    /\ rlCalls = [c \in Callers |-> 0]
    /\ rlGrants = <<>>
    /\ rlDue = [c \in Callers |-> 0]
    /\ rlSleeps = [c \in Callers |-> 0]

StInit ==
    /\ stPc = "connect"
    /\ stBackoff = InitialBackoff
    /\ stWait = 0
    /\ stInbox = <<>>
    /\ stEnd = "close"
    /\ stCancelReq = FALSE
    /\ stAttempt = 0
    /\ stFirstFailed = FALSE
    /\ stOpened = FALSE
    /\ stEverOpened = FALSE
    /\ stPrevWait = 0
    /\ stOpenedSince = FALSE
    /\ stConnMsgs = <<>>
    /\ stConnGot = <<>>

(* The record of a call on the service. *)
(* The coroutines that call start() and stop() *)
LockCallers == {"a", "b", "c"}

SvCall(op, flip) ==
    [op |-> op, flip |-> flip, err |-> "none", wasRunning |-> FALSE, failAt |-> 0,
     fetches |-> 0, created |-> FALSE, closed |-> FALSE, max |-> None]

SvInit ==
    /\ svTask = "none"
    /\ svStopEvent = FALSE
    /\ svCancel = FALSE
    /\ svStopping = FALSE
    /\ svRecent = <<>>
    /\ svLatest = None
    /\ svSeen = <<>>
    /\ svQuiet = FALSE
    /\ svLate = FALSE
    /\ svLast = SvCall("init", FALSE)
    /\ svSnap = ServiceSnapshot(<<>>, EmptyBuffers, <<>>, None, None)
    /\ svSnapAt = ViewSnapshot(<<>>, ServiceSnapshot(<<>>, EmptyBuffers, <<>>, None, None))
    /\ svLock = [locked |-> FALSE, waiters |-> <<>>,
                 pc |-> [c \in LockCallers |-> "idle"], live |-> 0]

PsInit ==
    /\ psPath = Path("state", ".json")
    /\ psTemp = NoFile
    /\ psPc = "idle"
    /\ psSnap = NoEntries
    /\ psDone = {}
    /\ psBefore = NoFile
    /\ psLast = "none"

CcInit ==
    /\ cLock = "free"
    /\ cIngest = [pc |-> "idle", tick |-> None, tf |-> 1, write |-> 0, expect |-> None]
    /\ cBatch = [pc |-> "idle", payload |-> <<>>, seeded |-> 0]
    /\ cReader = [held |-> <<>>, seen |-> None, during |-> FALSE]
    /\ cVersions = <<>>

PvInit ==
    provider = [state |-> "none", owns |-> FALSE, client |-> "open", closes |-> 0]

Init ==
    /\ AggInit
    /\ MgrInit
    /\ RlInit
    /\ StInit
    /\ SvInit
    /\ PsInit
    /\ PvInit
    /\ CcInit
    /\ lastCall = Call("init", "1m", 0, "none", <<>>)

----------------------------------------------------------------------------
(* The aggregator on its own *)

Update(tick) ==
    /\ UNCHANGED feedVars
    /\ nCalls < MaxCalls
    /\ LET r == AggUpdate(heap, buffers, tick) IN
        /\ heap' = r.heap
        /\ buffers' = r.buffers
        /\ fed' = IF r.err = "none" THEN Append(fed, tick) ELSE fed
        /\ nCalls' = IF r.err = "none" THEN nCalls + 1 ELSE nCalls
        /\ lastCall' = Call("update", "1m", 0, r.err, <<>>)
    /\ UNCHANGED <<held, heldAt, seeded>>
    /\ UNCHANGED <<mgrVars, rlVars>>

Seed(tf, candles) ==
    /\ UNCHANGED feedVars
    /\ nCalls < MaxCalls
    /\ LET r == AggSeed(heap, candles) IN
        /\ heap' = r.heap
        /\ buffers' = [buffers EXCEPT ![tf] = r.buf]
        /\ lastCall' = Call("seed", tf, candles, r.err, <<>>)
    /\ seeded' = TRUE
    /\ nCalls' = nCalls + 1
    /\ UNCHANGED <<held, heldAt, fed>>
    /\ UNCHANGED <<mgrVars, rlVars>>

GetCandlesCall(tf) ==
    /\ UNCHANGED feedVars
    /\ held' = GetCandles(buffers, tf)
    /\ heldAt' = Deref(heap, GetCandles(buffers, tf))
    /\ lastCall' = Call("get_candles", tf, 0, "none", GetCandles(buffers, tf))
    /\ UNCHANGED <<heap, buffers, fed, seeded, nCalls>>
    /\ UNCHANGED <<mgrVars, rlVars>>

NextAgg ==
    \/ \E tick \in Ticks : Update(tick)
    \/ \E tf \in TFSet : \E candles \in SeedInputs(tf) : Seed(tf, candles)
    \/ \E tf \in TFSet : GetCandlesCall(tf)

SpecAgg == Init /\ [][NextAgg]_vars

----------------------------------------------------------------------------
(* The manager: every mutation runs under the lock, so each call is one step *)

Limits == {None} \cup {<<n>> : n \in (0 - 1)..(MaxLength + 1)}
Windows == (0 - 1)..(MaxLength + 1)

IngestTick(tick) ==
    /\ UNCHANGED feedVars
    /\ nCalls < MaxCalls
    /\ IF ~Aware(tick.timestamp)
       THEN /\ lastCall' = Call("ingest_tick", "1m", 0, "ValueError", <<>>)
            /\ UNCHANGED <<heap, buffers, cache, file, fed, nCalls>>
       ELSE LET r == AggUpdate(heap, buffers, MgrLocalizeTick(tick, ARGENTINA_TIMEZONE)) IN
            /\ heap' = r.heap
            /\ buffers' = r.buffers
            /\ cache' = SyncCache(r.buffers)
            /\ file' = PersistState(r.heap, SyncCache(r.buffers))
            /\ fed' = Append(fed, tick)
            /\ nCalls' = nCalls + 1
            /\ lastCall' = Call("ingest_tick", "1m", 0, "none", <<>>)
    /\ UNCHANGED <<held, heldAt, seeded, rlVars>>

(* seed: an error of the aggregator's seed leaves the with block before
   the cache is synchronised and the state persisted *)
MgrSeed(tf, candles) ==
    /\ UNCHANGED feedVars
    /\ nCalls < MaxCalls
    /\ nCalls' = nCalls + 1
    /\ seeded' = TRUE
    /\ LET r == AggSeed(heap, candles)
           bufs == [buffers EXCEPT ![tf] = r.buf]
       IN  /\ heap' = r.heap
           /\ buffers' = bufs
           /\ cache' = IF r.err = "none" THEN SyncCache(bufs) ELSE cache
           /\ file' = IF r.err = "none" THEN PersistState(r.heap, SyncCache(bufs)) ELSE file
           /\ lastCall' = Call("seed", tf, candles, r.err, <<>>)
    /\ UNCHANGED <<held, heldAt, fed, rlVars>>

(* refresh_higher_timeframes; the call record keeps whether the cache
   differed from the aggregator's candles when it was called. *)
RefreshHigherTimeframes ==
    /\ UNCHANGED feedVars
    /\ cache' = SyncCache(buffers)
    /\ file' = PersistState(heap, SyncCache(buffers))
    /\ lastCall' = Call("refresh", "1m", IF cache = buffers THEN 0 ELSE 1, "none", <<>>)
    /\ UNCHANGED <<aggVars, rlVars>>

GetLatestCall(tf) ==
    /\ UNCHANGED feedVars
    /\ lastCall' = Call("get_latest", tf, 0, "none", GetLatest(cache, tf))
    /\ UNCHANGED <<aggVars, mgrVars, rlVars>>

GetSliceCall(tf, limit) ==
    /\ UNCHANGED feedVars
    /\ lastCall' = Call("get_slice", tf, limit, "none", GetSlice(cache, tf, limit))
    /\ UNCHANGED <<aggVars, mgrVars, rlVars>>

GetRollingHighCall(tf, window) ==
    /\ UNCHANGED feedVars
    /\ LET r == GetRollingHigh(heap, cache, tf, window) IN
       lastCall' = [Call("get_rolling_high", tf, window, r.err, r.result)
                        EXCEPT !.reads = r.reads]
    /\ UNCHANGED <<aggVars, mgrVars, rlVars>>

GetRollingLowCall(tf, window) ==
    /\ UNCHANGED feedVars
    /\ LET r == GetRollingLow(heap, cache, tf, window) IN
       lastCall' = [Call("get_rolling_low", tf, window, r.err, r.result)
                        EXCEPT !.reads = r.reads]
    /\ UNCHANGED <<aggVars, mgrVars, rlVars>>

(* What get_latest of the manager returns now for each timeframe. *)
LatestView == [tf \in TFSet |-> Deref(heap, GetLatest(cache, tf))]

(* A new manager is constructed with the same symbol, timeframes, history
   limit and path; it takes the place of the original one, whose latest
   candles the call record keeps. *)
Restart ==
    /\ UNCHANGED feedVars
    /\ LET r == LoadPersistedState(file) IN
        /\ heap' = r.heap
        /\ buffers' = r.buffers
        /\ cache' = r.cache
        /\ seeded' = \E tf \in TFSet : file.timeframes[tf] # <<>>
        /\ lastCall' = Call("restart", "1m", LatestView, r.err, <<>>)
    /\ fed' = <<>>
    /\ held' = <<>>
    /\ heldAt' = <<>>
    /\ UNCHANGED <<file, nCalls, rlVars>>

(* The manager under seeding, ticks, scheduler refreshes and restarts *)
NextMgr ==
    \/ \E tick \in Ticks : IngestTick(tick)
    \/ \E tf \in TFSet : \E candles \in SeedInputs(tf) : MgrSeed(tf, candles)
    \/ RefreshHigherTimeframes
    \/ \E tf \in TFSet : GetLatestCall(tf)
    \/ Restart

SpecMgr == Init /\ [][NextMgr]_vars

(* The manager's readers beside the tick stream *)
NextRead ==
    \/ \E tick \in Ticks : IngestTick(tick)
    \/ \E tf \in TFSet : GetLatestCall(tf)
    \/ \E tf \in TFSet : \E limit \in Limits : GetSliceCall(tf, limit)
    \/ \E tf \in TFSet : \E window \in Windows : GetRollingHighCall(tf, window)
    \/ \E tf \in TFSet : \E window \in Windows : GetRollingLowCall(tf, window)

SpecRead == Init /\ [][NextRead]_vars

----------------------------------------------------------------------------
(* Claims about the aggregator *)

PricesOf(ticks) == [i \in DOMAIN ticks |-> ticks[i].price]
QuantitiesOf(ticks) == [i \in DOMAIN ticks |-> ticks[i].quantity]
BucketStart(tick, tf) == tick.timestamp.ts - (tick.timestamp.ts % Duration(tf))
SameBucket(ticks, tf) ==
    \A i \in DOMAIN ticks : BucketStart(ticks[i], tf) = BucketStart(ticks[1], tf)

(* The buffer of tf holds exactly one candle, the fold of the ticks given. *)
OneCandleOf(ticks, tf) ==
    /\ Len(buffers[tf]) = 1
    /\ LET c == heap[buffers[tf][1]] IN
        /\ c.open_time.ts = BucketStart(ticks[1], tf)
        /\ c.open = ticks[1].price
        /\ c.close = Last(ticks).price
        /\ c.high = SeqMax(PricesOf(ticks))
        /\ c.low = SeqMin(PricesOf(ticks))
        /\ c.volume = SeqSum(QuantitiesOf(ticks))

(* C1: when every tick folded so far by update into a fresh aggregator
   floors to the same bucket of a timeframe, that timeframe's buffer holds
   one candle: open is the first price, close the last, high and low the
   maximum and minimum price, volume the sum of the quantities. *)
C1_SameBucketFold ==
    \A tf \in TFSet :
        (~seeded /\ fed # <<>> /\ SameBucket(fed, tf)) => OneCandleOf(fed, tf)

(* Three ticks of one 5m bucket were folded, with the highest price neither
   first nor last. *)
C1_Witness ==
    /\ ~seeded
    /\ Len(fed) = 3
    /\ SameBucket(fed, "5m")
    /\ fed[2].price > fed[1].price
    /\ fed[2].price > fed[3].price
    /\ fed[1].price # fed[3].price

OpenTimesIncreasing(tf) ==
    \A i, j \in DOMAIN buffers[tf] :
        i < j => heap[buffers[tf][i]].open_time.ts < heap[buffers[tf][j]].open_time.ts

(* C2: after every sequence of update calls, in any timestamp order, the
   open_times of each timeframe's buffer are strictly increasing. *)
C2_OpenTimesStrictlyIncreasing ==
    ~seeded => \A tf \in TFSet : OpenTimesIncreasing(tf)

Count(s, v) == Cardinality({i \in DOMAIN s : s[i] = v})
ReExpressed(c) ==
    [c EXCEPT !.open_time = DT(c.open_time.ts, ARGENTINA_TIMEZONE),
              !.close_time = DT(c.close_time.ts, ARGENTINA_TIMEZONE)]
AllAware(candles) ==
    \A i \in DOMAIN candles : Aware(candles[i].open_time) /\ Aware(candles[i].close_time)
Ascending(candles) ==
    \A i, j \in DOMAIN candles : i < j => candles[i].open_time.ts <= candles[j].open_time.ts

(* The state right after seed(tf, candles) of timezone-aware candles. *)
AfterSeed == lastCall.op = "seed" /\ AllAware(lastCall.arg)
SeedGiven == [i \in DOMAIN lastCall.arg |-> ReExpressed(lastCall.arg[i])]
SeedGot == Deref(heap, GetCandles(buffers, lastCall.tf))

(* C4 as stated: get_candles after seed returns all the candles given,
   re-expressed in the aggregator's timezone, in ascending order. *)
C4_SeedReturnsAll ==
    AfterSeed =>
        /\ Ascending(SeedGot)
        /\ Len(SeedGot) = Len(SeedGiven)
        /\ \A i \in DOMAIN SeedGiven : Count(SeedGot, SeedGiven[i]) = Count(SeedGiven, SeedGiven[i])

(* C4 (amended): get_candles after seed returns the candles given,
   re-expressed in the aggregator's timezone, in ascending open_time order,
   all of them when they are at most max_length and otherwise the newest
   max_length of them; nothing else is in the buffer. *)
C4_SeedReturnsNewest ==
    AfterSeed =>
        /\ Ascending(SeedGot)
        /\ Len(SeedGot) = Min2(Len(SeedGiven), MaxLength)
        /\ \A i \in DOMAIN SeedGot : Count(SeedGot, SeedGot[i]) <= Count(SeedGiven, SeedGot[i])
        /\ \A i \in DOMAIN SeedGiven :
              Count(SeedGot, SeedGiven[i]) < Count(SeedGiven, SeedGiven[i])
                  => /\ Len(SeedGiven) > MaxLength
                     /\ \A j \in DOMAIN SeedGot :
                           SeedGiven[i].open_time.ts <= SeedGot[j].open_time.ts

(* A buffer that held candles was seeded with two candles given newest
   first under another timezone. *)
C4_Witness ==
    /\ AfterSeed
    /\ fed # <<>>
    /\ Len(lastCall.arg) = 2
    /\ lastCall.arg[1].open_time.ts > lastCall.arg[2].open_time.ts
    /\ lastCall.arg[1].open_time.tz # ARGENTINA_TIMEZONE
    /\ Len(SeedGot) = 2

(* C5: the candles of a list returned by get_candles stay as they were
   when it was returned. *)
C5_ReturnedListFrozen == Deref(heap, held) = heldAt

----------------------------------------------------------------------------
(* Claims about the manager *)

Ohlcv(c) == <<c.open, c.high, c.low, c.close, c.volume>>
Shown(refs) == [i \in DOMAIN refs |-> Ohlcv(heap[refs[i]])]

(* C3: after the ticks (100.0, 0.25) at 15:00:00, (102.0, 0.10) at
   15:00:30 and (101.5, 0.30) at 15:01:00 UTC were ingested into a fresh
   manager of timeframes 1m and 5m, the aggregator's buffer and the
   manager's slice of 1m are the two candles (100.0, 102.0, 100.0, 102.0,
   0.35) and (101.5, 101.5, 101.5, 101.5, 0.30), and those of 5m are the one
   candle (100.0, 102.0, 100.0, 101.5, 0.65). *)
C3_ThreeTickScenario ==
    (~seeded /\ fed = <<T1, T2, T3>>) =>
        /\ Shown(GetCandles(buffers, "1m"))
              = << <<1000, 1020, 1000, 1020, 35>>, <<1015, 1015, 1015, 1015, 30>> >>
        /\ Shown(GetSlice(cache, "1m", None))
              = << <<1000, 1020, 1000, 1020, 35>>, <<1015, 1015, 1015, 1015, 30>> >>
        /\ Shown(GetCandles(buffers, "5m")) = << <<1000, 1020, 1000, 1015, 65>> >>
        /\ Shown(GetSlice(cache, "5m", None)) = << <<1000, 1020, 1000, 1015, 65>> >>

(* The three ticks of the scenario have just been ingested. *)
C3_Witness ==
    /\ ~seeded
    /\ fed = <<T1, T2, T3>>
    /\ lastCall.op = "ingest_tick"
    /\ file.exists

SameCandle(a, b) ==
    /\ Len(a) = Len(b)
    /\ \A i \in DOMAIN a :
          /\ Ohlcv(a[i]) = Ohlcv(b[i])
          /\ DtEq(a[i].open_time, b[i].open_time)

(* C6: a manager constructed over the state file of a manager that was
   seeded and fed ticks has, for every timeframe, a get_latest candle equal
   in open, high, low, close, volume and open_time to the original's. *)
C6_RestartKeepsLatest ==
    (lastCall.op = "restart" /\ lastCall.err = "none") =>
        \A tf \in TFSet : SameCandle(LatestView[tf], lastCall.arg[tf])

SetMax(S) == CHOOSE x \in S : \A y \in S : y <= x
SetMin(S) == CHOOSE x \in S : \A y \in S : x <= y
(* The most recent k entries of a list, oldest first *)
Recent(s, k) == [i \in 1..k |-> s[Len(s) - k + i]]
RecentCached(tf, w) == Recent(cache[tf], Min2(w, Len(cache[tf])))

(* C7: for a window w > 0, get_rolling_high and get_rolling_low return the
   maximum high and the minimum low of the most recent min(w, n) cached
   candles and None when the cache is empty; for w <= 0 both raise
   ValueError without reading the cache. *)
C7_RollingHighLow ==
    lastCall.op \in {"get_rolling_high", "get_rolling_low"} =>
        LET w == lastCall.arg
            recent == RecentCached(lastCall.tf, w)
        IN  IF w <= 0
            THEN lastCall.err = "ValueError" /\ lastCall.reads = 0
            ELSE /\ lastCall.err = "none"
                 /\ IF cache[lastCall.tf] = <<>>
                    THEN lastCall.result = None
                    ELSE lastCall.result =
                           IF lastCall.op = "get_rolling_high"
                           THEN <<SetMax({heap[recent[i]].high : i \in DOMAIN recent})>>
                           ELSE <<SetMin({heap[recent[i]].low : i \in DOMAIN recent})>>

(* A rolling high over the newest of two candles, the older one higher. *)
C7_Witness ==
    /\ lastCall.op = "get_rolling_high"
    /\ lastCall.arg = 1
    /\ Len(cache[lastCall.tf]) = 2
    /\ heap[cache[lastCall.tf][1]].high > heap[cache[lastCall.tf][2]].high
    /\ lastCall.result = <<heap[cache[lastCall.tf][2]].high>>

(* C8: get_slice returns the most recent limit cached candles, oldest
   first; all of them when limit is omitted or at least the cache length;
   none for limit <= 0. *)
C8_GetSlice ==
    lastCall.op = "get_slice" =>
        LET candles == cache[lastCall.tf]
            limit == lastCall.arg
        IN  lastCall.result =
               IF limit = None THEN candles
               ELSE IF limit[1] >= Len(candles) THEN candles
               ELSE IF limit[1] <= 0 THEN <<>>
               ELSE Recent(candles, limit[1])

(* A slice of one candle out of a cache of two. *)
C8_Witness ==
    /\ lastCall.op = "get_slice"
    /\ lastCall.arg = <<1>>
    /\ Len(cache[lastCall.tf]) = 2
    /\ lastCall.result = <<cache[lastCall.tf][2]>>

----------------------------------------------------------------------------
(* The rate limiter under concurrent callers.  The body of `async with
   self._lock` contains no await and the lock is free whenever a task
   reaches it, so a pass of the loop is one step; the tasks interleave at
   the sleep. *)

(* Time left until the earliest grant inside the window leaves it, when
   the window holds max_calls grants; otherwise 0. *)
DueNow == IF Len(rlGrants) >= RlMaxCalls THEN RlPeriod - rlGrants[1] ELSE 0

(* A caller calls acquire and runs the first pass of the loop. *)
Acquire(c) ==
    /\ UNCHANGED feedVars
    /\ rlPc[c] = "idle"
    /\ rlCalls[c] < MaxAcquires
    /\ rlCalls' = [rlCalls EXCEPT ![c] = rlCalls[c] + 1]
    /\ rlDue' = [rlDue EXCEPT ![c] = DueNow]
    /\ LET r == AcquirePass(rlStamps) IN
        /\ rlStamps' = r.stamps
        /\ rlPc' = [rlPc EXCEPT ![c] = IF r.granted THEN "idle" ELSE "sleeping"]
        /\ rlSleep' = [rlSleep EXCEPT ![c] = r.wait_time]
        /\ rlGrants' = IF r.granted THEN Append(rlGrants, 0) ELSE rlGrants
        /\ rlSleeps' = [rlSleeps EXCEPT ![c] = IF r.granted THEN 0 ELSE 1]
    /\ UNCHANGED <<aggVars, mgrVars, lastCall>>

(* A caller whose sleep is over runs the next pass of the loop. *)
Resume(c) ==
    /\ UNCHANGED feedVars
    /\ rlPc[c] = "sleeping"
    /\ rlSleep[c] = 0
    /\ LET r == AcquirePass(rlStamps) IN
        /\ rlStamps' = r.stamps
        /\ rlPc' = [rlPc EXCEPT ![c] = IF r.granted THEN "idle" ELSE "sleeping"]
        /\ rlSleep' = [rlSleep EXCEPT ![c] = r.wait_time]
        /\ rlGrants' = IF r.granted THEN Append(rlGrants, 0) ELSE rlGrants
        /\ rlSleeps' = [rlSleeps EXCEPT ![c] =
                            IF r.granted THEN rlSleeps[c] ELSE Min2(rlSleeps[c] + 1, 2)]
    /\ UNCHANGED <<rlCalls, rlDue>>
    /\ UNCHANGED <<aggVars, mgrVars, lastCall>>

Older(ages) == [i \in DOMAIN ages |-> Min2(ages[i] + 1, RlPeriod)]
RECURSIVE InWindow(_)
InWindow(ages) ==
    IF ages = <<>> THEN <<>>
    ELSE IF ages[1] >= RlPeriod THEN InWindow(Tail(ages))
    ELSE <<ages[1]>> \o InWindow(Tail(ages))

(* The loop's clock advances by one unit. *)
ClockTick ==
    /\ UNCHANGED feedVars
    /\ rlStamps' = Older(rlStamps)
    /\ rlGrants' = InWindow(Older(rlGrants))
    /\ rlSleep' = [c \in Callers |-> Max2(rlSleep[c] - 1, 0)]
    /\ rlDue' = [c \in Callers |-> Max2(rlDue[c] - 1, 0)]
    /\ UNCHANGED <<rlPc, rlCalls, rlSleeps>>
    /\ UNCHANGED <<aggVars, mgrVars, lastCall>>

NextLimiter ==
    \/ \E c \in Callers : Acquire(c)
    \/ \E c \in Callers : Resume(c)
    \/ ClockTick

SpecLimiter == Init /\ [][NextLimiter]_vars

(* A fair scheduler runs every task whose sleep is over, and the clock
   advances.  These steps change the limiter's variables only. *)
SpecLimiterFair ==
    /\ SpecLimiter
    /\ \A c \in Callers : WF_rlVars(Resume(c))
    /\ WF_rlVars(ClockTick)

----------------------------------------------------------------------------
(* Claims about the rate limiter *)

(* C9: at every time the acquisitions granted within the trailing period
   are at most max_calls, and a caller that called acquire while max_calls
   grants lay inside the window has not been granted before the earliest of
   them left the window. *)
C9_WindowNeverExceeded ==
    /\ Len(rlGrants) <= RlMaxCalls
    /\ \A c \in Callers : rlPc[c] = "idle" => rlDue[c] = 0

(* A caller that had to sleep has been granted, and the window is full. *)
C9_Witness ==
    /\ Len(rlGrants) = RlMaxCalls
    /\ \E c \in Callers : rlPc[c] = "idle" /\ rlSleeps[c] = 1 /\ rlSleep[c] = 0

(* C10: under a fair scheduler and an advancing clock every acquire call
   that went to sleep eventually returns. *)
C10_EveryAcquireReturns ==
    \A c \in Callers : (rlPc[c] = "sleeping") ~> (rlPc[c] = "idle")

(* A caller has returned from acquire after sleeping, waking to a window
   that others had filled, and sleeping again. *)
C10_Witness ==
    \E c \in Callers : rlPc[c] = "idle" /\ rlSleeps[c] = 2

----------------------------------------------------------------------------
(* stream_trades as a task: it is blocked in the connection attempt, in a
   read of the websocket or in the backoff sleep; what runs between two of
   these awaits is one step.  The consumer handles a tick without awaiting. *)

nonStVars == <<aggVars, mgrVars, lastCall, rlVars, svcVars, psVars, pvVars, ccVars>>

(* An exception raised inside the try block reaches the except clauses. *)
StRaise(exc) ==
    LET r == OnRaise(exc, stBackoff) IN
    /\ stPc' = r.pc
    /\ stWait' = IF r.pc = "sleep" THEN r.wait ELSE stWait
    /\ stPrevWait' = IF r.pc = "sleep" THEN stWait ELSE stPrevWait
    /\ stInbox' = <<>>
    /\ stCancelReq' = FALSE
    /\ UNCHANGED <<stBackoff, stEnd>>

(* async with self._ws_factory(url) as websocket: the attempt raises, or it
   opens a connection that will carry the messages of a script. *)
StConnectStep(opens, script) ==
    /\ stPc = "connect"
    /\ IF stCancelReq
       THEN /\ StRaise("CancelledError")
            /\ UNCHANGED <<stAttempt, stFirstFailed, stOpened, stEverOpened,
                           stOpenedSince, stConnMsgs, stConnGot>>
       ELSE /\ stAttempt' = Min2(stAttempt + 1, MaxAttempts)
            /\ stFirstFailed' = IF stAttempt = 0 THEN ~opens ELSE stFirstFailed
            /\ stOpened' = opens
            /\ stEverOpened' = (stEverOpened \/ opens)
            /\ stOpenedSince' = (stOpenedSince \/ opens)
            /\ stConnMsgs' = IF opens THEN script.msgs ELSE <<>>
            /\ stConnGot' = <<>>
            /\ IF opens
               THEN /\ stPc' = "read"
                    /\ stInbox' = script.msgs
                    /\ stEnd' = script.end
                    /\ UNCHANGED <<stBackoff, stWait, stPrevWait, stCancelReq>>
               ELSE StRaise("Exception")

StConnect(opens, script) ==
    /\ StConnectStep(opens, script)
    /\ UNCHANGED nonStVars

(* One round of the async for: the next message is decoded and the tick
   yielded to the consumer, or the connection ends. *)
StReadStep ==
    /\ stPc = "read"
    /\ IF stCancelReq
       THEN StRaise("CancelledError") /\ UNCHANGED stConnGot
       ELSE IF stInbox # <<>>
       THEN /\ stConnGot' = Append(stConnGot, DecodeMessage(Head(stInbox)))
            /\ stInbox' = AfterMessage(stInbox)
            /\ UNCHANGED <<stPc, stBackoff, stWait, stPrevWait, stEnd, stCancelReq>>
       ELSE IF stEnd = "close"
       THEN /\ stPc' = OnCleanClose.pc
            /\ stBackoff' = OnCleanClose.backoff
            /\ UNCHANGED <<stWait, stPrevWait, stInbox, stEnd, stCancelReq, stConnGot>>
       ELSE StRaise("Exception") /\ UNCHANGED stConnGot
    /\ UNCHANGED <<stAttempt, stFirstFailed, stOpened, stEverOpened, stOpenedSince,
                   stConnMsgs>>

StRead ==
    /\ StReadStep
    /\ UNCHANGED nonStVars

(* asyncio.sleep(backoff) returns and backoff is doubled, or the sleep
   raises the cancellation, which no except clause encloses. *)
StWakeStep ==
    /\ stPc = "sleep"
    /\ IF stCancelReq
       THEN /\ stPc' = "cancelled"
            /\ stCancelReq' = FALSE
            /\ UNCHANGED <<stBackoff, stOpenedSince>>
       ELSE /\ stPc' = "connect"
            /\ stBackoff' = NextBackoff(stBackoff)
            /\ stOpenedSince' = FALSE
            /\ UNCHANGED stCancelReq
    /\ UNCHANGED <<stWait, stInbox, stEnd, stAttempt, stFirstFailed, stOpened,
                   stEverOpened, stPrevWait, stConnMsgs, stConnGot>>

StWake ==
    /\ StWakeStep
    /\ UNCHANGED nonStVars

(* The task consuming the stream is cancelled from outside. *)
StCancelStep ==
    /\ stPc \in {"connect", "read", "sleep"}
    /\ ~stCancelReq
    /\ stCancelReq' = TRUE
    /\ UNCHANGED <<stPc, stBackoff, stWait, stInbox, stEnd, stAttempt, stFirstFailed,
                   stOpened, stEverOpened, stPrevWait, stOpenedSince, stConnMsgs,
                   stConnGot>>

StCancel ==
    /\ StCancelStep
    /\ UNCHANGED nonStVars

(* A connection attempt completes, one way or the other. *)
StConnectAny ==
    \/ \E script \in Scripts : StConnect(TRUE, script)
    \/ StConnect(FALSE, [msgs |-> <<>>, end |-> "error"])

NextStream ==
    \/ StConnectAny
    \/ StRead
    \/ StWake
    \/ StCancel

SpecStream == Init /\ [][NextStream]_vars

(* The event loop runs a task whose await has completed. *)
SpecStreamFair ==
    /\ SpecStream
    /\ WF_vars(StConnectAny)
    /\ WF_vars(StRead)
    /\ WF_vars(StWake)

----------------------------------------------------------------------------
(* The feed service.  start and stop run under the service's lock; while
   start backfills there is no live streaming task, so it is one step.  stop
   awaits the task it cancelled: the task's reaction is a step of its own. *)

nonSvVars == <<mgrVars, lastCall, rlVars, stVars, psVars, pvVars, ccVars, held, heldAt,
              fed, seeded>>

(* The ticks the provider's stream may yield: one with a naive timestamp,
   one of the same minute, one of a later bucket. *)
ServiceTicks == {TNaive, T2, T4}

TickLimits == {None} \cup {<<n>> : n \in (0 - 1)..(TickBufferSize + 1)}

(* start() past its guard: _seed_history, then the stop event and the
   task are made *)
SvSeedAndLaunch(failAt, hist) ==
    /\ nCalls < MaxCalls
    /\ nCalls' = nCalls + 1
    /\ svRecent' = <<>>
    /\ svLatest' = None
    /\ svSeen' = <<>>
    /\ LET r == SeedHistory(heap, buffers, failAt, hist) IN
        /\ heap' = r.heap
        /\ buffers' = r.buffers
        /\ svLast' = [SvCall("start", ~svLast.flip) EXCEPT
                         !.err = r.err, !.failAt = failAt,
                         !.fetches = r.fetches, !.created = (r.err = "none")]
        /\ IF r.err = "none"
           THEN /\ svStopEvent' = FALSE
                /\ svTask' = "running"
                /\ svCancel' = FALSE
                /\ svQuiet' = FALSE
           ELSE UNCHANGED <<svStopEvent, svTask, svCancel, svQuiet>>

(* start() at its guard with a task that is not done: it returns *)
SvStartNoop ==
    /\ svLast' = [SvCall("start", ~svLast.flip) EXCEPT !.wasRunning = TRUE]
    /\ UNCHANGED <<heap, buffers, nCalls, svTask, svStopEvent, svCancel,
                   svRecent, svLatest, svSeen, svQuiet>>

SvStartStep(failAt, hist) ==
    /\ ~svStopping
    /\ IF StartGuard(svTask) THEN SvStartNoop ELSE SvSeedAndLaunch(failAt, hist)
    /\ UNCHANGED <<svStopping, svLate, svSnap, svSnapAt>>

SvStart(failAt, hist) ==
    /\ SvStartStep(failAt, hist)
    /\ UNCHANGED svLock
    /\ UNCHANGED nonSvVars

(* stop() up to its return, or up to `await self._task` when the task is
   still running. *)
SvStopStep ==
    /\ ~svStopping
    /\ CASE svTask = "none" ->
              /\ svLast' = [SvCall("stop", ~svLast.flip) EXCEPT !.closed = TRUE]
              /\ UNCHANGED <<svTask, svStopEvent, svCancel, svStopping, svQuiet>>
         [] svTask = "finished" ->
              /\ svStopEvent' = TRUE
              /\ svQuiet' = TRUE
              /\ svTask' = "none"
              /\ svLast' = [SvCall("stop", ~svLast.flip) EXCEPT !.closed = TRUE]
              /\ UNCHANGED <<svCancel, svStopping>>
         [] svTask = "failed" ->
              /\ svStopEvent' = TRUE
              /\ svQuiet' = TRUE
              /\ svLast' = [SvCall("stop", ~svLast.flip) EXCEPT !.err = "TaskError"]
              /\ UNCHANGED <<svTask, svCancel, svStopping>>
         [] svTask = "running" ->
              /\ svStopEvent' = TRUE
              /\ svQuiet' = TRUE
              /\ svCancel' = TRUE
              /\ svStopping' = TRUE
              /\ svLast' = SvCall("stopping", ~svLast.flip)
              /\ UNCHANGED svTask
    /\ UNCHANGED <<svRecent, svLatest, svSeen, svLate, svSnap, svSnapAt>>

SvStop ==
    /\ SvStopStep
    /\ UNCHANGED svLock
    /\ UNCHANGED <<aggVars, nonSvVars>>

(* The cancellation reaches _run through the provider's stream and ends
   the task. *)
SvTaskCancelledStep ==
    /\ svTask = "running"
    /\ svCancel
    /\ svTask' = "cancelled"
    /\ svCancel' = FALSE
    /\ UNCHANGED <<svStopEvent, svStopping, svRecent, svLatest, svSeen, svQuiet, svLate,
                   svLast, svSnap, svSnapAt>>

SvTaskCancelled ==
    /\ SvTaskCancelledStep
    /\ UNCHANGED svLock
    /\ UNCHANGED <<aggVars, nonSvVars>>

(* stop() after `await self._task` returned or raised CancelledError *)
SvStopEndStep ==
    /\ svStopping
    /\ svTask \in {"cancelled", "finished"}
    /\ svTask' = "none"
    /\ svStopping' = FALSE
    /\ svLast' = [SvCall("stop", ~svLast.flip) EXCEPT !.closed = TRUE]
    /\ UNCHANGED <<svStopEvent, svCancel, svRecent, svLatest, svSeen, svQuiet, svLate,
                   svSnap, svSnapAt>>

SvStopEnd ==
    /\ SvStopEndStep
    /\ UNCHANGED svLock
    /\ UNCHANGED <<aggVars, nonSvVars>>

(* The provider's stream yields a tick to _run: the loop breaks when the
   stop event is set (a provider that yields although cancelled), and
   otherwise _handle_tick runs.  calls bounds the calls of one run that
   change the aggregator. *)
SvTickWithinStep(tick, calls) ==
    /\ svTask = "running"
    /\ IF svStopEvent
       THEN /\ svTask' = "finished"
            /\ svCancel' = FALSE
            /\ UNCHANGED <<heap, buffers, nCalls, svRecent, svLatest, svSeen, svLate,
                           svLast>>
       ELSE /\ nCalls < calls
            /\ nCalls' = nCalls + 1
            /\ LET localized == HandleTickLocalize(tick)
                   r == AggUpdate(heap, buffers, localized)
               IN  /\ svLatest' = <<localized>>
                   /\ svRecent' = DequeAppend(svRecent, localized, TickBufferSize)
                   /\ heap' = r.heap
                   /\ buffers' = r.buffers
            /\ svSeen' = DequeAppend(svSeen, tick, TickBufferSize + 1)
            /\ svLate' = (svLate \/ svQuiet)
            /\ svLast' = SvCall("handle_tick", ~svLast.flip)
            /\ UNCHANGED <<svTask, svCancel>>
    /\ UNCHANGED <<svStopEvent, svStopping, svQuiet, svSnap, svSnapAt>>

SvTickWithin(tick, calls) ==
    /\ SvTickWithinStep(tick, calls)
    /\ UNCHANGED svLock
    /\ UNCHANGED nonSvVars

SvTick(tick) == SvTickWithin(tick, MaxCalls)

(* The provider's stream ends: _run returns. *)
SvStreamEndStep ==
    /\ svTask = "running"
    /\ svTask' = "finished"
    /\ svCancel' = FALSE
    /\ UNCHANGED <<svStopEvent, svStopping, svRecent, svLatest, svSeen, svQuiet, svLate,
                   svLast, svSnap, svSnapAt>>

SvStreamEnd ==
    /\ SvStreamEndStep
    /\ UNCHANGED svLock
    /\ UNCHANGED <<aggVars, nonSvVars>>

(* The provider's stream raises: _run logs and raises again. *)
SvStreamErrorStep ==
    /\ svTask = "running"
    /\ ~svCancel
    /\ svTask' = "failed"
    /\ UNCHANGED <<svStopEvent, svCancel, svStopping, svRecent, svLatest, svSeen, svQuiet,
                   svLate, svLast, svSnap, svSnapAt>>

SvStreamError ==
    /\ SvStreamErrorStep
    /\ UNCHANGED svLock
    /\ UNCHANGED <<aggVars, nonSvVars>>

SvSnapshot(max_ticks) ==
    /\ svSnap' = ServiceSnapshot(heap, buffers, svRecent, svLatest, max_ticks)
    /\ svSnapAt' = ViewSnapshot(heap, ServiceSnapshot(heap, buffers, svRecent, svLatest,
                                                      max_ticks))
    /\ svLast' = [SvCall("snapshot", ~svLast.flip) EXCEPT !.max = max_ticks]
    /\ UNCHANGED <<svTask, svStopEvent, svCancel, svStopping, svRecent, svLatest, svSeen,
                   svQuiet, svLate, svLock>>
    /\ UNCHANGED <<aggVars, nonSvVars>>

NextService ==
    \/ \E failAt \in 0..Len(Timeframes) : \E hist \in {"none", "two"} : SvStart(failAt, hist)
    \/ SvStop
    \/ SvTaskCancelled
    \/ SvStopEnd
    \/ \E tick \in ServiceTicks : SvTick(tick)
    \/ SvStreamEnd
    \/ SvStreamError
    \/ \E max_ticks \in TickLimits : SvSnapshot(max_ticks)

SpecService == Init /\ [][NextService]_vars

----------------------------------------------------------------------------
(* Claims about stream_trades *)

ExpectedTick(m) ==
    [price |-> m.p, quantity |-> m.q,
     timestamp |-> [ts |-> m.T.s, tz |-> ARGENTINA_TIMEZONE]]
ExpectedTicks(msgs) == [i \in DOMAIN msgs |-> ExpectedTick(msgs[i])]
NotCancelled == ~stCancelReq /\ stPc # "cancelled"
SecondAfterFailedFirst == stFirstFailed /\ stAttempt = 2 /\ stOpened

(* C11: when the first connection attempt raised and the second opened, the
   consumer has received the ticks of the second connection's messages read
   so far, in message order, and all of them once that connection is over:
   none twice, none missing. *)
C11_ReconnectDeliversAll ==
    (SecondAfterFailedFirst /\ NotCancelled) =>
        IF stPc = "read"
        THEN stConnGot = SubSeq(ExpectedTicks(stConnMsgs), 1,
                                Len(stConnMsgs) - Len(stInbox))
        ELSE stConnGot = ExpectedTicks(stConnMsgs)

(* The second connection, opened after the first attempt raised, has
   delivered two ticks and is over. *)
C11_Witness ==
    /\ SecondAfterFailedFirst
    /\ NotCancelled
    /\ stPc # "read"
    /\ Len(stConnMsgs) = 2
    /\ stConnGot = ExpectedTicks(stConnMsgs)

(* C12: the first wait before a reconnect is 1; a wait that follows another
   with no connection opened in between is double that one, capped at 30;
   so the waits after k errors in a row from the start are 1, 2, 4, 8, 16,
   30, 30, ...; no wait exceeds 30. *)
C12_BackoffSequence ==
    stPc = "sleep" =>
        /\ stWait <= 30
        /\ (stPrevWait = 0) => (stWait = 1)
        /\ (stPrevWait # 0 /\ ~stOpenedSince) => (stWait = Min2(2 * stPrevWait, 30))
        /\ (~stEverOpened /\ stAttempt < MaxAttempts)
              => (stWait = Min2(2 ^ (stAttempt - 1), 30))

(* The seventh error in a row: a wait of 30 after a wait of 30. *)
C12_Witness ==
    /\ stPc = "sleep"
    /\ ~stEverOpened
    /\ stAttempt = 7
    /\ stPrevWait = 30
    /\ stWait = 30

(* C13: the wait after the failure of a connection that had opened is 1,
   however many failures came before that connection. *)
C13_BackoffResetOnReconnect ==
    (stPc = "sleep" /\ stOpened) => (stWait = 1)

(* A step taken while a cancellation is pending ends the generator with the
   cancellation. *)
CancelPropagates ==
    (stCancelReq /\ (stPc' # stPc \/ ~stCancelReq')) => (stPc' = "cancelled")

(* C14: stream_trades ends only by a cancellation; a cancellation pending
   at a connection attempt, a stream read or a backoff sleep ends it and is
   never followed by a retry; as long as it is not cancelled it comes back to
   a connection attempt again and again. *)
C14_StopsOnlyOnCancellation ==
    /\ [](stPc \in {"connect", "read", "sleep", "cancelled"})
    /\ [][CancelPropagates]_vars
    /\ []<>(stPc \in {"connect", "cancelled"})

(* The stream was cancelled in its backoff sleep after a connection that
   had opened failed. *)
C14_Witness ==
    /\ stPc = "cancelled"
    /\ stEverOpened
    /\ stAttempt >= 3
    /\ stWait > 1

----------------------------------------------------------------------------
(* Claims about the feed service *)

(* A step that is a call of start() *)
StartStep == svLast'.op = "start" /\ svLast'.flip # svLast.flip

(* C15: start() called while the streaming task exists and has not
   finished makes no backfill call, leaves the ring buffer, the latest tick
   and the aggregator as they are, and creates no task. *)
C15_StartIdempotentWhileRunning ==
    [][(svTask = "running" /\ StartStep) =>
          /\ svLast'.fetches = 0
          /\ ~svLast'.created
          /\ UNCHANGED <<svRecent, svLatest, heap, buffers, svTask>>]_vars

(* start() was called on a running service that had handled ticks. *)
C15_Witness ==
    /\ svLast.op = "start"
    /\ svLast.wasRunning
    /\ svTask = "running"
    /\ svRecent # <<>>
    /\ svLatest # None

(* C16: when the backfill call of some timeframe fails, start() raises to
   its caller, launches no streaming task, and the service is not running. *)
C16_BackfillFailureAbortsStart ==
    (svLast.op = "start" /\ svLast.failAt # 0) =>
        /\ svLast.err # "none"
        /\ ~svLast.created
        /\ svTask # "running"

(* The backfill of the second timeframe failed after the first one was
   fetched. *)
C16_Witness ==
    /\ svLast.op = "start"
    /\ svLast.failAt = 2
    /\ svLast.fetches = 2
    /\ svLast.err # "none"

(* C17: stop() returns without raising in every state, and when it has
   returned the task is terminated and discarded and the provider closed;
   no tick is handled once stop() has set about stopping. *)
C17_StopAlwaysSafe ==
    /\ ~svLate
    /\ (svLast.op = "stop") =>
          (svLast.err = "none" /\ svTask = "none" /\ svLast.closed)

ArtIso(ts) == [wall |-> ts - 10800, offset |-> <<0 - 10800>>]
ExpectedTickDict(t) ==
    [price |-> t.price, quantity |-> t.quantity, timestamp |-> ArtIso(t.timestamp.ts)]
ExpectedCandleDict(c) ==
    [open_time |-> ArtIso(c.open_time.ts), close_time |-> ArtIso(c.close_time.ts),
     timeframe |-> c.timeframe, open |-> c.open, high |-> c.high,
     low |-> c.low, close |-> c.close, volume |-> c.volume]
(* What the ring buffer should hold of the ticks handled *)
SeenRing == Recent(svSeen, Min2(Len(svSeen), TickBufferSize))
DictsOf(ticks) == [i \in DOMAIN ticks |-> ExpectedTickDict(ticks[i])]

(* C18: snapshot(max_ticks) returns the latest tick handled (None when
   there is none), the most recent max_ticks ticks of the ring buffer, oldest
   first (all for None, none for max_ticks <= 0), and the candles of every
   timeframe; and a snapshot returned earlier still shows what it showed. *)
C18_SnapshotIsCopy ==
    /\ ViewSnapshot(heap, svSnap) = svSnapAt
    /\ (svLast.op = "snapshot") =>
          /\ svSnapAt.latest_tick =
                IF svSeen = <<>> THEN None ELSE <<ExpectedTickDict(Last(svSeen))>>
          /\ svSnapAt.recent_ticks =
                IF svLast.max = None THEN DictsOf(SeenRing)
                ELSE IF svLast.max[1] <= 0 THEN <<>>
                ELSE DictsOf(Recent(SeenRing, Min2(svLast.max[1], Len(SeenRing))))
          /\ \A tf \in TFSet :
                svSnapAt.ohlcv[tf] =
                    [i \in DOMAIN buffers[tf] |-> ExpectedCandleDict(heap[buffers[tf][i]])]

(* A snapshot of one tick and one 1m candle is held, and a later tick has
   been merged into that candle. *)
C18_Witness ==
    /\ svLast.op = "handle_tick"
    /\ Len(svSnapAt.recent_ticks) = 1
    /\ Len(svSnapAt.ohlcv["1m"]) = 1
    /\ Len(buffers["1m"]) = 1
    /\ heap[buffers["1m"][1]].volume # svSnapAt.ohlcv["1m"][1].volume

----------------------------------------------------------------------------
(* Persistence step by step: a mutation runs under the lock up to the call
   of _persist_state_locked, whose file operations (write_text opening the
   temporary path, write_text writing it, replace) follow one at a time.
   The process may die between any two of them; a new manager is then
   constructed on the same path. *)

nonPsVars == <<rlVars, stVars, svcVars, pvVars, ccVars, held, heldAt>>

PersistPaths == {Path("state", ".json"), Path("state", ".tmp")}

(* The mutations of one run of this specification *)
MaxPersists == 2

(* The timeframe that is seeded *)
PersistTimeframes == {"1m"}

(* A naive tick, a tick and one of the next minute *)
PersistTicks == {TNaive, T1, T3}

(* MarketDataManager(persist_path = path), before any state was written *)
PsConstruct(path) ==
    /\ psPc = "idle"
    /\ nCalls = 0
    /\ psDone = {}
    /\ ~file.exists
    /\ ~psTemp.exists
    /\ path # psPath
    /\ psPath' = path
    /\ lastCall' = Call("construct", "1m", 0, "none", <<>>)
    /\ UNCHANGED <<aggVars, mgrVars, psTemp, psPc, psSnap, psDone, psBefore, psLast,
                   rlVars, stVars, svcVars, pvVars, ccVars>>

(* ingest_tick up to snapshot() in _persist_state_locked *)
PsIngestTick(tick) ==
    /\ psPc = "idle"
    /\ nCalls < MaxPersists
    /\ IF ~Aware(tick.timestamp)
       THEN /\ lastCall' = Call("ingest_tick", "1m", 0, "ValueError", <<>>)
            /\ psLast' = "none"
            /\ UNCHANGED <<heap, buffers, cache, fed, nCalls, psPc, psSnap, psBefore>>
       ELSE LET r == AggUpdate(heap, buffers, MgrLocalizeTick(tick, ARGENTINA_TIMEZONE)) IN
            /\ heap' = r.heap
            /\ buffers' = r.buffers
            /\ cache' = SyncCache(r.buffers)
            /\ psSnap' = Snapshot(r.heap, SyncCache(r.buffers))
            /\ psPc' = "open"
            /\ psBefore' = file
            /\ psLast' = "none"
            /\ fed' = Append(fed, tick)
            /\ nCalls' = nCalls + 1
            /\ lastCall' = Call("ingest_tick", "1m", 0, "none", <<>>)
    /\ UNCHANGED <<file, seeded, psPath, psTemp, psDone, nonPsVars>>

(* seed up to snapshot() in _persist_state_locked *)
PsSeed(tf, candles) ==
    /\ psPc = "idle"
    /\ nCalls < MaxPersists
    /\ nCalls' = nCalls + 1
    /\ seeded' = TRUE
    /\ LET r == AggSeed(heap, candles)
           bufs == [buffers EXCEPT ![tf] = r.buf]
       IN  /\ heap' = r.heap
           /\ buffers' = bufs
           /\ cache' = IF r.err = "none" THEN SyncCache(bufs) ELSE cache
           /\ psSnap' = IF r.err = "none" THEN Snapshot(r.heap, SyncCache(bufs)) ELSE psSnap
           /\ psPc' = IF r.err = "none" THEN "open" ELSE "idle"
           /\ psBefore' = IF r.err = "none" THEN file ELSE psBefore
           /\ psLast' = "none"
           /\ lastCall' = Call("seed", tf, candles, r.err, <<>>)
    /\ UNCHANGED <<file, fed, psPath, psTemp, psDone, nonPsVars>>

(* refresh_higher_timeframes up to snapshot() in _persist_state_locked *)
PsRefresh ==
    /\ psPc = "idle"
    /\ cache' = SyncCache(buffers)
    /\ psSnap' = Snapshot(heap, SyncCache(buffers))
    /\ psPc' = "open"
    /\ psBefore' = file
    /\ psLast' = "none"
    /\ lastCall' = Call("refresh", "1m", 0, "none", <<>>)
    /\ UNCHANGED <<aggVars, file, psPath, psTemp, psDone, rlVars, stVars, svcVars,
                   pvVars, ccVars>>

(* write_text opens temp_path for writing, which creates or empties the
   file at that path. *)
PsOpenTemp ==
    /\ psPc = "open"
    /\ psPc' = "write"
    /\ IF TempPath(psPath) = psPath
       THEN file' = Truncated /\ UNCHANGED psTemp
       ELSE psTemp' = Truncated /\ UNCHANGED file
    /\ UNCHANGED <<aggVars, cache, lastCall, psPath, psSnap, psDone, psBefore, psLast,
                   rlVars, stVars, svcVars,
                   pvVars, ccVars>>

(* write_text has written the whole document and closed the file. *)
PsWriteTemp ==
    /\ psPc = "write"
    /\ psPc' = "rename"
    /\ IF TempPath(psPath) = psPath
       THEN file' = Document(psSnap) /\ UNCHANGED psTemp
       ELSE psTemp' = Document(psSnap) /\ UNCHANGED file
    /\ UNCHANGED <<aggVars, cache, lastCall, psPath, psSnap, psDone, psBefore, psLast,
                   rlVars, stVars, svcVars,
                   pvVars, ccVars>>

(* temp_path.replace(self._persist_path): the rename, which changes nothing
   when both are the same path; the persist step is complete. *)
PsRename ==
    /\ psPc = "rename"
    /\ psPc' = "idle"
    /\ IF TempPath(psPath) = psPath
       THEN UNCHANGED <<file, psTemp>>
       ELSE file' = psTemp /\ psTemp' = NoFile
    /\ psDone' = psDone \cup {psSnap}
    /\ psLast' = "written"
    /\ UNCHANGED <<aggVars, cache, lastCall, psPath, psSnap, psBefore, rlVars, stVars, svcVars,
                   pvVars, ccVars>>

(* mkdir, write_text or replace raises OSError, which is logged: the
   persist step ends and leaves the files as they are. *)
PsOSError ==
    /\ psPc \in {"open", "write", "rename"}
    /\ psPc' = "idle"
    /\ psLast' = "failed"
    /\ UNCHANGED <<aggVars, mgrVars, lastCall, psPath, psTemp, psSnap, psDone, psBefore,
                   rlVars, stVars, svcVars,
                   pvVars, ccVars>>

(* The process dies, wherever the persist step stands, and a new manager
   is constructed on the same path. *)
PsCrash ==
    /\ LET r == LoadPersistedState(file) IN
        /\ heap' = r.heap
        /\ buffers' = r.buffers
        /\ cache' = r.cache
        /\ seeded' = \E tf \in TFSet : file.timeframes[tf] # <<>>
        /\ lastCall' = Call("crash", "1m", psPc, r.err, <<>>)
    /\ psPc' = "idle"
    /\ fed' = <<>>
    /\ held' = <<>>
    /\ heldAt' = <<>>
    /\ psBefore' = file
    /\ psLast' = "none"
    /\ UNCHANGED <<file, nCalls, psPath, psTemp, psSnap, psDone, rlVars, stVars, svcVars,
                   pvVars, ccVars>>

NextPersist ==
    \/ \E path \in PersistPaths : PsConstruct(path)
    \/ \E tick \in PersistTicks : PsIngestTick(tick)
    \/ \E tf \in PersistTimeframes : \E candles \in SeedInputs(tf) : PsSeed(tf, candles)
    \/ PsRefresh
    \/ PsOpenTemp
    \/ PsWriteTemp
    \/ PsRename
    \/ PsOSError
    \/ PsCrash

SpecPersist == Init /\ [][NextPersist]_vars

(* C19: at every point of every sequence of mutations and crashes, the
   file at the persist path is absent or holds the complete snapshot that
   some completed persist step wrote; it is never a partial document. *)
C19_CrashSafePersistence ==
    file.exists => (file.form = "object" /\ file.timeframes \in psDone)

(* The same for a persist path whose suffix is not ".tmp". *)
CrashSafeWithOtherSuffix ==
    psPath.suffix # ".tmp" => C19_CrashSafePersistence

(* A crash between the write of the temporary file and the rename, after
   an earlier persist step had completed. *)
CrashBeforeRename ==
    /\ lastCall.op = "crash"
    /\ lastCall.arg = "rename"
    /\ psTemp.exists
    /\ file.exists
    /\ psTemp # file

----------------------------------------------------------------------------
(* Construction over a state file that something else has damaged or
   replaced while no persist step ran *)

(* The entry without one of its keys *)
WithoutKey(entry, key) == [k \in DOMAIN entry \ {key} |-> entry[k]]

(* The entry with text that is neither a number nor a timestamp under key *)
WithText(entry, key) ==
    [k \in DOMAIN entry \cup {"rejected"} |->
        IF k = "rejected" THEN {key} ELSE entry[k]]

(* The entry with a timestamp that carries no offset under key *)
WithNaive(entry, key) == [entry EXCEPT ![key] = [@ EXCEPT !.offset = None]]

DamagedKeys == {"open_time", "volume"}

(* What the damage makes of one entry *)
DamagedEntries(entry) ==
    {WithoutKey(entry, key) : key \in DamagedKeys}
        \cup {WithText(entry, key) : key \in DamagedKeys}
        \cup {WithNaive(entry, key) : key \in {"open_time", "close_time"}}

(* The files that are not the document of a snapshot: no file, an
   unreadable one, text that is not JSON, JSON that is not an object, and
   the object f with the first entry of a timeframe damaged *)
DamagedFiles(f) ==
    {NoFile, File("unreadable", NoEntries), File("invalid", NoEntries),
     File("other", NoEntries)}
        \cup UNION {{File("object", [f.timeframes EXCEPT ![tf][1] = e]) :
                        e \in DamagedEntries(f.timeframes[tf][1])} :
                    tf \in {t \in TFSet : f.timeframes[t] # <<>>}}

(* An entry from which _deserialize_candle and seed cannot make a candle *)
BadEntry(entry) ==
    \/ DeserializeRaises(entry)
    \/ entry.open_time.offset = None
    \/ entry.close_time.offset = None

(* The state file is missing, unreadable, not JSON or of a malformed shape *)
Malformed(f) ==
    \/ ~f.exists
    \/ f.form # "object"
    \/ \E tf \in TFSet : \E k \in DOMAIN f.timeframes[tf] : BadEntry(f.timeframes[tf][k])

(* The state file written by the manager is damaged or replaced. *)
LdDamage(damaged) ==
    /\ ~Malformed(file)
    /\ file' = damaged
    /\ lastCall' = Call("damage", "1m", 0, "none", <<>>)
    /\ UNCHANGED <<aggVars, cache, rlVars, feedVars>>

NextLoad ==
    \/ \E tick \in PersistTicks : IngestTick(tick)
    \/ \E tf \in TFSet : \E candles \in SeedInputs(tf) : MgrSeed(tf, candles)
    \/ \E damaged \in DamagedFiles(file) : LdDamage(damaged)
    \/ Restart

SpecLoad == Init /\ [][NextLoad]_vars

(* C20: a manager constructed over a state file that is missing,
   unreadable, not valid JSON or of a malformed shape is constructed
   without an error and starts with no candle in any timeframe. *)
C20_ConstructionSurvivesBadFile ==
    (lastCall.op = "restart" /\ Malformed(file)) =>
        /\ lastCall.err = "none"
        /\ cache = EmptyBuffers
        /\ buffers = EmptyBuffers

(* The same for the files that are missing, unreadable or not JSON. *)
ConstructionSurvivesUnparsedFile ==
    (lastCall.op = "restart" /\ (~file.exists \/ file.form \in {"unreadable", "invalid"})) =>
        /\ lastCall.err = "none"
        /\ cache = EmptyBuffers
        /\ buffers = EmptyBuffers

(* A manager that had candles is constructed anew over a file that is not
   JSON. *)
RestartOverInvalidFile ==
    /\ lastCall.op = "restart"
    /\ file.form = "invalid"
    /\ \E tf \in TFSet : lastCall.arg[tf] # <<>>

----------------------------------------------------------------------------
(* Ticks fed to an aggregator directly (update) and through the manager
   that wraps it (ingest_tick) *)

NextTicks ==
    \/ \E tick \in Ticks : Update(tick)
    \/ \E tick \in Ticks : IngestTick(tick)

SpecTicks == Init /\ [][NextTicks]_vars

(* C22: update and ingest_tick given a tick whose timestamp has no tzinfo
   fail with ValueError, and that step changes no candle, no timeframe
   buffer, no cache entry and not the state file. *)
C22_NaiveTickRejected ==
    [][\A tick \in Ticks :
          (~Aware(tick.timestamp) /\ (Update(tick) \/ IngestTick(tick))) =>
              /\ lastCall'.err = "ValueError"
              /\ UNCHANGED <<heap, buffers, cache, file>>]_vars

(* A naive tick was refused by a manager that holds candles and has
   written its state. *)
C22_Witness ==
    /\ lastCall.op \in {"update", "ingest_tick"}
    /\ lastCall.err = "ValueError"
    /\ cache["1m"] # <<>>
    /\ file.exists

----------------------------------------------------------------------------
(* The scheduler's heartbeat calls refresh_higher_timeframes, between the
   manager's other operations and after the cache was emptied from outside *)

(* manager._cache[timeframe] = [], as the repository's test does *)
ClearCache(tf) ==
    /\ cache[tf] # <<>>
    /\ cache' = [cache EXCEPT ![tf] = <<>>]
    /\ lastCall' = Call("clear_cache", tf, 0, "none", <<>>)
    /\ UNCHANGED <<aggVars, file, rlVars, feedVars>>

NextRefresh ==
    \/ \E tick \in PersistTicks : IngestTick(tick)
    \/ \E tf \in TFSet : \E candles \in SeedInputs(tf) : MgrSeed(tf, candles)
    \/ \E tf \in TFSet : ClearCache(tf)
    \/ RefreshHigherTimeframes

SpecRefresh == Init /\ [][NextRefresh]_vars

(* C23: refresh_higher_timeframes leaves every aggregator buffer and every
   candle as it was; when it has returned, the cache of every timeframe
   holds the aggregator's candles of that timeframe, and the state file
   holds those candles of the cache, serialised. *)
C23_RefreshResyncs ==
    [][RefreshHigherTimeframes =>
          /\ UNCHANGED <<heap, buffers>>
          /\ \A tf \in TFSet : cache'[tf] = buffers'[tf]
          /\ file'.exists /\ file'.form = "object"
          /\ \A tf \in TFSet :
                file'.timeframes[tf] = [i \in DOMAIN cache'[tf] |-> AsDict(heap'[cache'[tf][i]])]]_vars

(* A refresh has run on a cache that did not hold the aggregator's candles,
   and the cache holds two candles of a timeframe again. *)
C23_Witness ==
    /\ lastCall.op = "refresh"
    /\ lastCall.arg = 1
    /\ \E tf \in TFSet : Len(cache[tf]) = 2

----------------------------------------------------------------------------
(* Claims about the candles of the aggregator's buffers *)

(* C26: every candle in every timeframe buffer has high at least the
   larger of open and close, and low at most the smaller of them. *)
C26_HighLowBracketOpenClose ==
    \A tf \in TFSet : \A i \in DOMAIN buffers[tf] :
        LET c == heap[buffers[tf][i]] IN
        /\ c.high >= Max2(c.open, c.close)
        /\ c.low <= Min2(c.open, c.close)

(* A tick above the high of a seeded candle and a tick below the low of a
   candle have been merged. *)
C26_Witness ==
    /\ seeded
    /\ \E tf \in TFSet : \E i \in DOMAIN buffers[tf] :
          LET c == heap[buffers[tf][i]] IN c.close = c.high /\ c.high > c.open /\ c.volume > 50
    /\ \E tf \in TFSet : \E i \in DOMAIN buffers[tf] :
          LET c == heap[buffers[tf][i]] IN c.close = c.low /\ c.low < c.open

(* The candle objects of timeframe tf that a step has created. *)
Created(tf) == {i \in (Len(heap) + 1)..Len(heap') : heap'[i].timeframe = tf}

(* A step of update that succeeded. *)
UpdateStep == lastCall'.op = "update" /\ nCalls' = nCalls + 1

(* C27: no timeframe buffer is ever longer than max_length; an update that
   appends a candle to a full buffer removes the candle at its head and
   keeps the others in order before the new one; a seed with more than
   max_length candles leaves the max_length newest of them, in order. *)
C27_BufferBounded ==
    /\ [](\A tf \in TFSet : Len(buffers[tf]) <= MaxLength)
    /\ [][UpdateStep =>
            \A tf \in TFSet :
                IF Created(tf) = {} THEN buffers'[tf] = buffers[tf]
                ELSE \E i \in Created(tf) :
                        buffers'[tf] = IF Len(buffers[tf]) = MaxLength
                                       THEN Append(Tail(buffers[tf]), i)
                                       ELSE Append(buffers[tf], i)]_vars
    /\ []((AfterSeed /\ Len(SeedGiven) > MaxLength) =>
            /\ Len(SeedGot) = MaxLength
            /\ Ascending(SeedGot)
            /\ \A i \in DOMAIN SeedGiven :
                  \/ \E j \in DOMAIN SeedGot : SeedGot[j] = SeedGiven[i]
                  \/ \A j \in DOMAIN SeedGot :
                        SeedGiven[i].open_time.ts < SeedGot[j].open_time.ts)

(* An update has appended to a full buffer of 1m. *)
C27_Witness ==
    /\ lastCall.op = "update"
    /\ Len(buffers["1m"]) = MaxLength
    /\ Last(buffers["1m"]) = Len(heap) - 1
    /\ Cardinality({i \in DOMAIN heap : heap[i].timeframe = "1m"}) > MaxLength

----------------------------------------------------------------------------
(* Claims about the manager's cache and state file after its operations *)

(* The newest n entries of a list. *)
Newest(list, n) == IF Len(list) > n THEN SubSeq(list, Len(list) - n + 1, Len(list)) ELSE list

(* The cache holds the newest history_limit candles of every buffer, and
   the state file, once written, holds what snapshot() returns. *)
CacheAndFileInStep ==
    /\ \A tf \in TFSet : cache[tf] = Newest(buffers[tf], HistoryLimit)
    /\ file.exists =>
          /\ file.form = "object"
          /\ \A tf \in TFSet :
                file.timeframes[tf] = [i \in DOMAIN cache[tf] |-> AsDict(heap[cache[tf][i]])]

(* C28: whenever seed, ingest_tick or refresh_higher_timeframes has
   returned, normally or with an error, the cache of every timeframe is the
   aggregator's buffer cut to the newest history_limit candles and the
   state file equals snapshot(). *)
C28_CacheFollowsAggregator ==
    lastCall.op \in {"seed", "ingest_tick", "refresh"} => CacheAndFileInStep

(* The same for the operations that returned normally, which have also
   written the file. *)
CacheFollowsAfterSuccess ==
    (lastCall.op \in {"seed", "ingest_tick", "refresh"} /\ lastCall.err = "none") =>
        CacheAndFileInStep /\ file.exists

----------------------------------------------------------------------------
(* Claims about a persist step that fails *)

(* A mutation has returned after its persist step logged an OSError. *)
AfterFailedWrite ==
    /\ psPc = "idle"
    /\ psLast = "failed"
    /\ lastCall.op \in {"seed", "ingest_tick", "refresh"}

(* C30: when the persist step of seed, ingest_tick or
   refresh_higher_timeframes fails with an OSError, the operation returns
   normally, the aggregator and the cache hold the result of the mutation
   and the file at the persist path is as it was before the operation. *)
C30_WriteFailureNotFatal ==
    AfterFailedWrite =>
        /\ lastCall.err = "none"
        /\ \A tf \in TFSet : cache[tf] = buffers[tf]
        /\ lastCall.op = "ingest_tick" =>
              heap[Last(buffers["1m"])].close = Last(fed).price
        /\ file = psBefore

(* The mutation that follows a failed persist step runs a persist step
   again. *)
PersistsAgainAfterFailure ==
    [][(psLast = "failed" /\ (PsRefresh \/ PsIngestTick(T1))) => psPc' = "open"]_vars

(* The same for a persist path whose suffix is not ".tmp". *)
WriteFailureNotFatalWithOtherSuffix ==
    (AfterFailedWrite /\ psPath.suffix # ".tmp") =>
        /\ lastCall.err = "none"
        /\ \A tf \in TFSet : cache[tf] = buffers[tf]
        /\ file = psBefore

(* A write failed after the temporary file had been opened, with an
   earlier snapshot at the persist path. *)
FailedWriteOverEarlierFile ==
    /\ AfterFailedWrite
    /\ psBefore.exists
    /\ psTemp.exists
    /\ psTemp.form = "invalid"
----------------------------------------------------------------------------
(* The provider: its HTTP client, and the history it hands to the aggregator *)

(* The close() calls of one run of this specification *)
MaxCloses == 3

(* The klines an exchange may answer with for timeframe tf: one whose close
   time is the opening of the next interval, and two consecutive ones whose
   close time is the last millisecond of their own interval. *)
KlinePayloads(tf) ==
    LET d == Duration(tf) IN
    { <<Kline(Millis(Base - d, 0), 1000, 1050, 990, 1040, 125, Millis(Base, 0))>>,
      <<Kline(Millis(Base - 2 * d, 0), 1000, 1050, 990, 1040, 125,
              Millis(Base - d - 1, 999)),
        Kline(Millis(Base - d, 0), 1040, 1060, 1030, 1045, 80,
              Millis(Base - 1, 999))>> }

PvConstruct(external) ==
    /\ provider.state = "none"
    /\ provider' = NewProvider(external)
    /\ lastCall' = Call("__init__", "1m", external, "none", <<>>)
    /\ UNCHANGED <<aggVars, mgrVars, rlVars, stVars, svcVars, psVars, ccVars>>

PvClose ==
    /\ provider.state = "ready"
    /\ provider.closes < MaxCloses
    /\ provider' = ProviderClose(provider)
    /\ lastCall' = Call("close", "1m", 0, "none", <<>>)
    /\ UNCHANGED <<aggVars, mgrVars, rlVars, stVars, svcVars, psVars, ccVars>>

(* One round of _seed_history: the candles fetch_recent_candles returns for
   the timeframe are seeded into the aggregator.  A closed client raises on
   the request and nothing is seeded. *)
PvSeedHistory(tf, payload) ==
    /\ provider.state = "ready"
    /\ nCalls < MaxCalls
    /\ IF provider.client = "closed"
       THEN /\ lastCall' = Call("seed", tf, <<>>, "RuntimeError", <<>>)
            /\ UNCHANGED <<heap, buffers, seeded, nCalls>>
       ELSE LET candles == FetchRecentCandles(tf, payload)
                r == AggSeed(heap, candles) IN
            /\ heap' = r.heap
            /\ buffers' = [buffers EXCEPT ![tf] = r.buf]
            /\ lastCall' = Call("seed", tf, candles, r.err, <<>>)
            /\ seeded' = TRUE
            /\ nCalls' = nCalls + 1
    /\ UNCHANGED <<held, heldAt, fed>>
    /\ UNCHANGED <<mgrVars, rlVars, stVars, svcVars, psVars, pvVars, ccVars>>

NextProvider ==
    \/ \E external \in BOOLEAN : PvConstruct(external)
    \/ PvClose
    \/ \E tf \in TFSet : \E payload \in KlinePayloads(tf) : PvSeedHistory(tf, payload)
    \/ \E tf \in PersistTimeframes : \E candles \in SeedInputs(tf) : Seed(tf, candles)
    \/ \E tick \in PersistTicks : Update(tick)

SpecProvider == Init /\ [][NextProvider]_vars

(* C24: close() closes the HTTP client exactly when the provider made the
   client itself: the client of a provider is closed if and only if the
   provider owns it and close() was called, so a client supplied from
   outside stays open after any number of close() calls. *)
C24_CloseOnlyOwnedClient ==
    provider.state = "ready" =>
        ((provider.client = "closed") <=> (provider.owns /\ provider.closes > 0))

(* close() was called several times on a provider with a client from
   outside. *)
C24_Witness ==
    /\ provider.state = "ready"
    /\ ~provider.owns
    /\ provider.closes >= 2
    /\ provider.client = "open"

(* close() was called on a provider that made its client. *)
OwnedClientClosed ==
    provider.state = "ready" /\ provider.owns /\ provider.client = "closed"

(* close_time - open_time of a candle is the duration of its timeframe. *)
ExactSpan(candle) ==
    /\ candle.close_time.ts = candle.open_time.ts + Duration(candle.timeframe)
    /\ Microsecond(candle.close_time) = Microsecond(candle.open_time)

(* C25: after any sequence of seed and update calls, seeds with the
   provider's backfill included, every candle of every buffer has
   close_time = open_time + the duration of its timeframe. *)
C25_SpanEqualsDuration ==
    \A tf \in TFSet : \A i \in DOMAIN buffers[tf] : ExactSpan(heap[buffers[tf][i]])

(* The same for the candles that an update created or merged a tick into. *)
SpanExactAfterUpdate ==
    lastCall.op = "update" /\ lastCall.err = "none" =>
        \A tf \in TFSet : ExactSpan(heap[Last(buffers[tf])])

(* A backfill left a candle that ends a millisecond before the next
   interval opens. *)
BackfilledShortCandle ==
    /\ lastCall.op = "seed" /\ lastCall.err = "none"
    /\ \E tf \in TFSet : \E i \in DOMAIN buffers[tf] :
          Microsecond(heap[buffers[tf][i]].close_time) = 999000

----------------------------------------------------------------------------
(* The manager under threads: one thread in ingest_tick, one in seed_batch
   and one reading.  The lock is free between the calls of seed that
   seed_batch makes.  A call of seed, get_slice, get_latest or snapshot
   runs as one step when the lock is free: inside the lock no other thread
   changes or reads what it touches.  ingest_tick holds the lock over
   several steps, one per assignment of the merge, because a thread that
   holds a candle returned earlier reads it without the lock. *)

nonCcVars == <<lastCall, held, heldAt, seeded, rlVars, stVars, svcVars, psVars, pvVars>>

(* The ticks of the ingesting thread: two of one minute, one of the next. *)
ConcTicks == {T1, T2, T3}

(* The payload of seed_batch, in the order of its items. *)
BatchPayload ==
    <<[timeframe |-> "1m",
       candles |-> <<SeedCandle("1m", Base - 120, "UTC", "UTC", 1),
                     SeedCandle("1m", Base - 60, "UTC", "UTC", 0)>>],
      [timeframe |-> "5m",
       candles |-> <<SeedCandle("5m", Base - 300, "UTC", "UTC", 2)>>]>>

(* The candles as they are now, added to the states recorded for them. *)
Committed(versions, h) ==
    [i \in DOMAIN h |->
        IF i <= Len(versions) THEN versions[i] \cup {h[i]} ELSE {h[i]}]

(* seed_batch has seeded some timeframes of its payload and not yet all. *)
PartlySeeded == cBatch.pc = "running" /\ cBatch.seeded > 0

(* ingest_tick up to the with statement: the tick is localized, then the
   thread waits for the lock. *)
IngBegin(tick) ==
    /\ cIngest.pc = "idle"
    /\ nCalls < MaxCalls
    /\ cIngest' = [pc |-> "acquire",
                   tick |-> <<MgrLocalizeTick(tick, ARGENTINA_TIMEZONE)>>,
                   tf |-> 1, write |-> 0, expect |-> None]
    /\ UNCHANGED <<cLock, cBatch, cReader, cVersions>>
    /\ UNCHANGED <<heap, buffers, cache, file, fed, nCalls, nonCcVars>>

IngAcquire ==
    /\ cIngest.pc = "acquire"
    /\ cLock = "free"
    /\ cLock' = "ingest"
    /\ cIngest' = [cIngest EXCEPT !.pc = "upsert",
                                  !.expect = AggUpdate(heap, buffers, cIngest.tick[1])]
    /\ UNCHANGED <<cBatch, cReader, cVersions>>
    /\ UNCHANGED <<heap, buffers, cache, file, fed, nCalls, nonCcVars>>

(* One step of update inside the lock: for the timeframe reached, either the
   next assignment of the merge into the newest candle, or the append of a
   new candle. *)
IngUpsert ==
    /\ cIngest.pc = "upsert"
    /\ LET tf   == Timeframes[cIngest.tf]
           tick == LocalizeTick(cIngest.tick[1], ARGENTINA_TIMEZONE)
           buf  == buffers[tf]
           frame_start == FloorTimestamp(tick.timestamp, Duration(tf), ARGENTINA_TIMEZONE)
           frame_end   == DT(frame_start.ts + Duration(tf), ARGENTINA_TIMEZONE)
           last == cIngest.tf = Len(Timeframes)
           next == IF last THEN [cIngest EXCEPT !.pc = "sync", !.write = 0]
                   ELSE [cIngest EXCEPT !.tf = @ + 1, !.write = 0]
       IN  IF Len(buf) > 0 /\ DtEq(heap[Last(buf)].open_time, frame_start)
           THEN /\ heap' = [heap EXCEPT ![Last(buf)] =
                               MergeWrite(@, tick, frame_end, cIngest.write + 1)]
                /\ buffers' = buffers
                /\ cIngest' = IF cIngest.write + 1 = MergeWrites THEN next
                              ELSE [cIngest EXCEPT !.write = @ + 1]
           ELSE LET r == UpsertCandle(heap, buf, tf, tick, ARGENTINA_TIMEZONE) IN
                /\ heap' = r.heap
                /\ buffers' = [buffers EXCEPT ![tf] = r.buf]
                /\ cIngest' = next
    /\ UNCHANGED <<cLock, cBatch, cReader, cVersions>>
    /\ UNCHANGED <<cache, file, fed, nCalls, nonCcVars>>

(* The rest of ingest_tick: the cache is synchronised, the state persisted
   and the lock released; the call is complete. *)
IngFinish ==
    /\ cIngest.pc = "sync"
    /\ cache' = SyncCache(buffers)
    /\ file' = PersistState(heap, SyncCache(buffers))
    /\ cLock' = "free"
    /\ cIngest' = [pc |-> "idle", tick |-> None, tf |-> 1, write |-> 0, expect |-> None]
    /\ cVersions' = Committed(cVersions, heap)
    /\ fed' = Append(fed, cIngest.tick[1])
    /\ nCalls' = nCalls + 1
    /\ UNCHANGED <<cBatch, cReader>>
    /\ UNCHANGED <<heap, buffers, nonCcVars>>

BatchStart ==
    /\ cBatch.pc = "idle"
    /\ cBatch' = [pc |-> "running", payload |-> BatchPayload, seeded |-> 0]
    /\ UNCHANGED <<cLock, cIngest, cReader, cVersions>>
    /\ UNCHANGED <<heap, buffers, cache, file, fed, nCalls, nonCcVars>>

(* One round of the loop of seed_batch: self.seed(timeframe, candles), which
   takes the lock, seeds, synchronises the cache, persists and releases. *)
BatchSeed ==
    /\ cBatch.pc = "running"
    /\ cLock = "free"
    /\ LET item == cBatch.payload[cBatch.seeded + 1]
           r    == AggSeed(heap, item.candles)
           bufs == [buffers EXCEPT ![item.timeframe] = r.buf]
       IN  /\ heap' = r.heap
           /\ buffers' = bufs
           /\ cache' = IF r.err = "none" THEN SyncCache(bufs) ELSE cache
           /\ file' = IF r.err = "none" THEN PersistState(r.heap, SyncCache(bufs))
                      ELSE file
           /\ cVersions' = Committed(cVersions, r.heap)
           /\ cBatch' = IF r.err # "none" \/ cBatch.seeded + 1 = Len(cBatch.payload)
                        THEN [cBatch EXCEPT !.pc = "done", !.seeded = @ + 1]
                        ELSE [cBatch EXCEPT !.seeded = @ + 1]
    /\ UNCHANGED <<cLock, cIngest, cReader>>
    /\ UNCHANGED <<fed, nCalls, nonCcVars>>

(* get_slice(timeframe) of the reading thread *)
RdGetSlice(tf) ==
    /\ cLock = "free"
    /\ cReader' = [held |-> GetSlice(cache, tf, None), seen |-> None,
                   during |-> PartlySeeded]
    /\ UNCHANGED <<cLock, cIngest, cBatch, cVersions>>
    /\ UNCHANGED <<heap, buffers, cache, file, fed, nCalls, nonCcVars>>

(* get_latest(timeframe) of the reading thread *)
RdGetLatest(tf) ==
    /\ cLock = "free"
    /\ cReader' = [held |-> GetLatest(cache, tf), seen |-> None,
                   during |-> PartlySeeded]
    /\ UNCHANGED <<cLock, cIngest, cBatch, cVersions>>
    /\ UNCHANGED <<heap, buffers, cache, file, fed, nCalls, nonCcVars>>

(* The reading thread looks at a candle it was handed: no lock is involved. *)
RdLook(i) ==
    /\ i \in DOMAIN cReader.held
    /\ cReader' = [cReader EXCEPT
                      !.seen = <<[ref |-> cReader.held[i], value |-> heap[cReader.held[i]]]>>]
    /\ UNCHANGED <<cLock, cIngest, cBatch, cVersions>>
    /\ UNCHANGED <<heap, buffers, cache, file, fed, nCalls, nonCcVars>>

NextConc ==
    \/ \E tick \in ConcTicks : IngBegin(tick)
    \/ IngAcquire
    \/ IngUpsert
    \/ IngFinish
    \/ BatchStart
    \/ BatchSeed
    \/ \E tf \in TFSet : RdGetSlice(tf)
    \/ \E tf \in TFSet : RdGetLatest(tf)
    \/ \E i \in 1..MaxLength : RdLook(i)

SpecConc == Init /\ [][NextConc]_vars

(* C21: every candle the reading thread looks at, when get_slice or
   get_latest returns it or at any time afterwards, is in a state the candle
   had after a whole number of completed ingest_tick calls, never one with
   only some assignments of a merge made. *)
C21_ReaderSeesWholeTicks ==
    cReader.seen # None =>
        cReader.seen[1].value \in cVersions[cReader.seen[1].ref]

(* The reader looked at a candle whose high a tick has raised and whose
   close and volume are still those from before the tick. *)
TornCandleSeen ==
    /\ cReader.seen # None
    /\ cIngest.pc = "upsert"
    /\ cReader.seen[1].value.high = cIngest.tick[1].price
    /\ cReader.seen[1].value.close # cIngest.tick[1].price

(* Whenever the lock is free, every candle of the cache is in a state after
   whole ingest_tick calls: a reader inside the lock sees no partial tick. *)
WholeTicksUnderLock ==
    cLock = "free" =>
        \A tf \in TFSet : \A i \in DOMAIN cache[tf] :
            heap[cache[tf][i]] \in cVersions[cache[tf][i]]

(* The assignments of the merge, taken one at a time, make the update of
   the aggregator: when the loop over the timeframes is through, candles
   and buffers are what update gives on the state the lock was taken in. *)
MergeWritesMakeUpdate ==
    cIngest.pc = "sync" =>
        /\ heap = cIngest.expect.heap
        /\ buffers = cIngest.expect.buffers

(* C29: seed_batch seeds its whole payload under one hold of the lock: no
   call of the reading thread and no ingest_tick runs between two seeds of
   the batch, and the state file never holds the state between them. *)
C29_BatchSeededUnderOneLock ==
    /\ ~cReader.during
    /\ ~(cLock = "ingest" /\ PartlySeeded)
    /\ PartlySeeded => file # PersistState(heap, cache)

(* The reading thread made a call between two seeds of the batch. *)
ReadBetweenSeeds == cReader.during /\ PartlySeeded

(* ingest_tick holds the lock between two seeds of the batch. *)
IngestBetweenSeeds == cLock = "ingest" /\ PartlySeeded /\ cIngest.pc = "sync"

----------------------------------------------------------------------------
(* Claims about a seed that fails *)

(* C37: a seed of the manager (and with it the seed of its aggregator) that
   fails with ValueError for a candle without tzinfo leaves the candles of
   the timeframe's buffer, the cache and the state file as they were before
   the call. *)
C37_FailedSeedChangesNothing ==
    [][\A tf \in TFSet : \A candles \in SeedInputs(tf) :
          (MgrSeed(tf, candles) /\ lastCall'.err = "ValueError") =>
              /\ Deref(heap', buffers'[tf]) = Deref(heap, buffers[tf])
              /\ UNCHANGED <<cache, file>>]_vars

(* The same for the cache and the state file alone. *)
FailedSeedKeepsCacheAndFile ==
    [][\A tf \in TFSet : \A candles \in SeedInputs(tf) :
          (MgrSeed(tf, candles) /\ lastCall'.err = "ValueError") =>
              UNCHANGED <<cache, file>>]_vars

(* A seed failed on a timeframe that held two candles and holds one since. *)
FailedSeedOverHistory ==
    /\ lastCall.op = "seed" /\ lastCall.err = "ValueError"
    /\ Len(cache[lastCall.tf]) = 2
    /\ Len(buffers[lastCall.tf]) = 1

----------------------------------------------------------------------------
(* _floor_timestamp on its own: every timeframe of the Timeframe enum, tick
   times through one day, and aggregators configured with a zone west of
   UTC, UTC itself and a zone east of it by a half hour *)

AllTimeframes == {"1m", "5m", "15m", "1h", "4h", "1d"}

FloorZones == {"ART", "UTC", "IST"}

(* Tick times: past each hour of the day that starts at Base - 15 h
   (2024-01-01T00:00:00Z), 17 minutes and 5 seconds *)
FloorTimes == {DT(Base - 54000 + 3600 * h + 1025, "UTC") : h \in 0..23}

FloorCall(tf, dt, tz) ==
    /\ lastCall' = Call("floor", tf, [dt |-> dt, tz |-> tz], "none",
                        FloorTimestamp(dt, Duration(tf), tz))
    /\ UNCHANGED <<aggVars, mgrVars, rlVars, feedVars>>

NextFloor ==
    \E tf \in AllTimeframes : \E dt \in FloorTimes : \E tz \in FloorZones :
        FloorCall(tf, dt, tz)

SpecFloor == Init /\ [][NextFloor]_vars

(* The seconds since local midnight that a datetime's wall clock shows. *)
LocalTimeOfDay(dt) == (dt.ts + UtcOffset(dt.tz)) % 86400

(* The bucket holds the tick. *)
BucketHoldsTick ==
    lastCall.op = "floor" =>
        /\ lastCall.result.ts <= lastCall.arg.dt.ts
        /\ lastCall.arg.dt.ts < lastCall.result.ts + Duration(lastCall.tf)
        /\ lastCall.result.tz = lastCall.arg.tz

(* C31: for every timeframe, tick time and configured zone, the bucket start
   is at or before the tick, less than one duration before it, and its
   local time of day in the configured zone is a multiple of the duration. *)
C31_BucketAlignedToLocalClock ==
    lastCall.op = "floor" =>
        /\ lastCall.result.ts <= lastCall.arg.dt.ts
        /\ lastCall.arg.dt.ts < lastCall.result.ts + Duration(lastCall.tf)
        /\ LocalTimeOfDay(lastCall.result) % Duration(lastCall.tf) = 0

(* Alignment holds whenever the zone's offset is a multiple of the
   duration. *)
AlignedWhenOffsetIsMultiple ==
    (lastCall.op = "floor" /\ UtcOffset(lastCall.arg.tz) % Duration(lastCall.tf) = 0) =>
        LocalTimeOfDay(lastCall.result) % Duration(lastCall.tf) = 0

(* A daily bucket of the default zone that starts at 21:00 local time. *)
DailyBucketAtNinePm ==
    /\ lastCall.op = "floor" /\ lastCall.tf = "1d" /\ lastCall.arg.tz = "ART"
    /\ LocalTimeOfDay(lastCall.result) = 75600

----------------------------------------------------------------------------
(* Claims about the candles an update leaves alone *)

(* C34: an update changes no candle except the newest one of a timeframe
   buffer, and it changes a buffer only by appending a candle it created:
   a candle that is no longer the newest of its buffer is never changed by
   an update. *)
C34_OnlyNewestCandleChanges ==
    [][UpdateStep =>
          /\ \A i \in DOMAIN heap :
                heap'[i] # heap[i] =>
                    \E tf \in TFSet : buffers[tf] # <<>> /\ Last(buffers[tf]) = i
          /\ \A tf \in TFSet :
                \/ buffers'[tf] = buffers[tf]
                \/ Created(tf) # {} /\ Last(buffers'[tf]) \in Created(tf)]_vars

(* Without any seed, a tick was merged into the newest candle of a buffer
   that holds an older candle as well. *)
C34_Witness ==
    /\ ~seeded
    /\ lastCall.op = "update"
    /\ \E tf \in TFSet :
          /\ Len(buffers[tf]) >= 2
          /\ heap[Last(buffers[tf])].close # heap[Last(buffers[tf])].open

----------------------------------------------------------------------------
(* Claims about the order of the steps of start() *)

(* C32: start() seeds the aggregator before it clears the ring buffer, so a
   start() that fails in the backfill leaves the ring buffer and the latest
   tick as they were. *)
C32_FailedStartKeepsTicks ==
    [][\A failAt \in 0..Len(Timeframes) : \A hist \in {"none", "two"} :
          (SvStart(failAt, hist) /\ svLast'.op = "start" /\ svLast'.err # "none") =>
              UNCHANGED <<svRecent, svLatest>>]_vars

(* A start() that succeeds has seeded every timeframe, cleared the ring
   buffer and the latest tick, and left a running task. *)
StartSeedsClearsLaunches ==
    [][\A failAt \in 0..Len(Timeframes) : \A hist \in {"none", "two"} :
          (SvStart(failAt, hist) /\ svLast'.err = "none" /\ ~svLast'.wasRunning) =>
              /\ svLast'.fetches = Len(Timeframes)
              /\ svRecent' = <<>> /\ svLatest' = None
              /\ svTask' = "running"]_vars

----------------------------------------------------------------------------
(* The ring buffer of the feed service under a stream long enough to
   overflow it: the service is started without history, handles ticks and
   sees its stream end *)

NextRing ==
    \/ SvStart(0, "none")
    \/ \E tick \in ServiceTicks : SvTickWithin(tick, MaxCalls + 1)
    \/ SvStreamEnd
    \/ \E max_ticks \in {None, <<1>>} : SvSnapshot(max_ticks)

SpecRing == Init /\ [][NextRing]_vars

(* What _handle_tick keeps of a tick: its price and quantity, and its
   instant under ARGENTINA_TIMEZONE, a naive timestamp read as UTC. *)
ExpectedLocalTick(t) ==
    [price |-> t.price, quantity |-> t.quantity,
     timestamp |-> [ts |-> t.timestamp.ts, tz |-> ARGENTINA_TIMEZONE]]

(* The volume of all candles of a timeframe ever made. *)
VolumeOf(h, tf) ==
    SeqSum([i \in DOMAIN h |-> IF h[i].timeframe = tf THEN h[i].volume ELSE 0])

(* C35: the ring buffer never holds more than tick_buffer_size ticks; it
   holds the most recently handled ticks, oldest first; the latest tick is
   the last one handled; and each handled tick, a naive one included, adds
   its quantity to the candles of every timeframe once, while no other
   step of the stream changes a candle. *)
C35_RingBufferAndFold ==
    /\ [](/\ Len(svRecent) <= TickBufferSize
          /\ svRecent = [i \in DOMAIN SeenRing |-> ExpectedLocalTick(SeenRing[i])]
          /\ svLatest = IF svSeen = <<>> THEN None
                        ELSE <<ExpectedLocalTick(Last(svSeen))>>)
    /\ [][\A tick \in ServiceTicks :
             (SvTickWithin(tick, MaxCalls + 1) /\ ~svStopEvent) =>
                 /\ \A tf \in TFSet : VolumeOf(heap', tf) = VolumeOf(heap, tf) + tick.quantity
                 /\ \A tf \in TFSet :
                       /\ buffers'[tf] # <<>>
                       /\ heap'[Last(buffers'[tf])].close = tick.price]_vars
    /\ [][(SvStreamEnd \/ \E max_ticks \in {None, <<1>>} : SvSnapshot(max_ticks)) =>
             UNCHANGED <<heap, buffers>>]_vars

(* The ring buffer is full, a tick has been evicted from it, and a tick
   with a naive timestamp is among those handled. *)
C35_Witness ==
    /\ svLast.op = "handle_tick"
    /\ Len(svSeen) = TickBufferSize + 1
    /\ Len(svRecent) = TickBufferSize
    /\ \E i \in DOMAIN svSeen : ~Aware(svSeen[i].timestamp)

----------------------------------------------------------------------------
(* The end of a connection's messages without an error *)

(* The read that finds the connection closed without an error *)
CleanCloseStep ==
    StRead /\ ~stCancelReq /\ stInbox = <<>> /\ stEnd = "close"

(* The attempt or the read that ends with an error *)
ErrorStep ==
    \/ stPc = "connect" /\ ~stCancelReq /\ ~stOpened' /\ stAttempt' # stAttempt
    \/ stPc = "connect" /\ ~stCancelReq /\ ~stOpened' /\ stAttempt = MaxAttempts
    \/ stPc = "read" /\ ~stCancelReq /\ stInbox = <<>> /\ stEnd = "error"

(* C38: when the messages of a connection end without an error, backoff is
   back at 1 and the next connection attempt follows at once, with no
   wait; the stream waits only after an attempt that ended with an
   error. *)
C38_CleanCloseReconnectsAtOnce ==
    /\ [][CleanCloseStep =>
            /\ stPc' = "connect"
            /\ stBackoff' = InitialBackoff
            /\ UNCHANGED <<stWait, stPrevWait>>]_vars
    /\ [][(stPc # "sleep" /\ stPc' = "sleep") => ErrorStep]_vars
    /\ []((stPc = "connect" /\ stOpened /\ stOpenedSince) => stBackoff = InitialBackoff)

(* A connection opened after two failed attempts has ended without an
   error: the stream is at its next attempt with backoff 1, the last wait
   having been 2. *)
C38_Witness ==
    /\ stPc = "connect"
    /\ stOpened
    /\ stOpenedSince
    /\ stAttempt = 3
    /\ stWait = 2
    /\ stBackoff = InitialBackoff
    /\ ~stCancelReq

----------------------------------------------------------------------------
(* The feed service over BinanceDataProvider: _run consumes stream_trades.
   start() makes the task whose _run opens the stream; stop() cancels the
   task, and the cancellation is raised at the await the stream stands
   at; a tick the stream yields is handled by _run before the stream
   goes on. *)

nonFeedVars == <<mgrVars, lastCall, rlVars, psVars, pvVars, ccVars, held, heldAt,
                fed, seeded>>

(* What a step of the stream means to _run: a cancellation ends the task
   as cancelled, an exception coming out of the stream ends it as failed,
   and anything else leaves it running. *)
RunAfterStreamStep ==
    IF stPc' = "cancelled" THEN SvTaskCancelledStep
    ELSE IF stPc' \notin {"connect", "read", "sleep"} THEN SvStreamErrorStep
    ELSE UNCHANGED svcVars

(* _run calls stream_trades: a new generator, as StInit describes it *)
StBegin ==
    /\ stPc' = "connect"
    /\ stBackoff' = InitialBackoff
    /\ stWait' = 0
    /\ stInbox' = <<>>
    /\ stEnd' = "close"
    /\ stCancelReq' = FALSE
    /\ stAttempt' = 0
    /\ stFirstFailed' = FALSE
    /\ stOpened' = FALSE
    /\ stEverOpened' = FALSE
    /\ stPrevWait' = 0
    /\ stOpenedSince' = FALSE
    /\ stConnMsgs' = <<>>
    /\ stConnGot' = <<>>

FeedStart(failAt, hist) ==
    /\ SvStartStep(failAt, hist)
    /\ IF svLast'.created THEN StBegin ELSE UNCHANGED stVars
    /\ UNCHANGED <<svLock, nonFeedVars>>

FeedStop ==
    /\ SvStopStep
    /\ IF svTask = "running" THEN StCancelStep ELSE UNCHANGED stVars
    /\ UNCHANGED <<heap, buffers, nCalls, svLock, nonFeedVars>>

FeedStopEnd == SvStopEnd

FeedConnect ==
    /\ svTask = "running"
    /\ \/ \E script \in Scripts : StConnectStep(TRUE, script)
       \/ StConnectStep(FALSE, [msgs |-> <<>>, end |-> "error"])
    /\ RunAfterStreamStep
    /\ UNCHANGED <<heap, buffers, nCalls, svLock, nonFeedVars>>

FeedRead ==
    /\ svTask = "running"
    /\ StReadStep
    /\ IF Len(stConnGot') > Len(stConnGot)
       THEN SvTickWithinStep(Last(stConnGot'), MaxCalls)
       ELSE RunAfterStreamStep /\ UNCHANGED <<heap, buffers, nCalls>>
    /\ UNCHANGED <<svLock, nonFeedVars>>

FeedWake ==
    /\ svTask = "running"
    /\ StWakeStep
    /\ RunAfterStreamStep
    /\ UNCHANGED <<heap, buffers, nCalls, svLock, nonFeedVars>>

NextFeed ==
    \/ \E failAt \in 0..1 : FeedStart(failAt, "none")
    \/ FeedStop
    \/ FeedStopEnd
    \/ FeedConnect
    \/ FeedRead
    \/ FeedWake

SpecFeed == Init /\ [][NextFeed]_vars

(* A connection attempt or a read of the stream fails *)
StreamFailure ==
    \/ FeedConnect /\ ~stCancelReq /\ ~stOpened'
    \/ FeedRead /\ ~stCancelReq /\ stInbox = <<>> /\ stEnd = "error"

(* C33: the streaming task leaves Running only by the cancellation stop()
   requested (or an error of _handle_tick), never because a connection
   attempt or a read of the stream failed: after such a failure the task
   is still running and the stream is in its backoff sleep; as long as
   the task runs the stream is at a connection attempt, a read or a
   sleep. *)
C33_StreamErrorsStayInProvider ==
    /\ [][(svTask = "running" /\ svTask' # "running") =>
             /\ svStopping
             /\ svCancel
             /\ svTask' = "cancelled"]_vars
    /\ [][StreamFailure =>
             /\ svTask' = "running"
             /\ stPc' = "sleep"
             /\ UNCHANGED <<svRecent, svLatest, heap, buffers>>]_vars
    /\ [](svTask = "running" => stPc \in {"connect", "read", "sleep"})

(* The task is running and has handled a tick of a connection opened after
   a failed attempt and a failed read. *)
C33_Witness ==
    /\ svTask = "running"
    /\ ~svCancel
    /\ stFirstFailed
    /\ stAttempt >= 3
    /\ stWait = 2
    /\ stPc = "read"
    /\ stConnGot # <<>>
    /\ svLatest = <<Last(stConnGot)>>

----------------------------------------------------------------------------
(* start() and stop() called by coroutines that run concurrently.  Both
   run `async with self._lock`; a caller that finds the lock taken waits in
   line for it.  start() awaits the backfill and stop() awaits the task it
   cancelled, each holding the lock: these awaits are where other callers
   and the task get to run. *)

(* A lock that lets every caller in. *)
LockFreeAlways(lk) == TRUE

(* asyncio.Lock.acquire returns at once when the lock is not held and
   nobody waits for it *)
LockFree(lk) == ~lk.locked /\ lk.waiters = <<>>

LockState(locked, waiters, c, at, live) ==
    [locked |-> locked, waiters |-> waiters,
     pc |-> [d \in LockCallers |-> IF d = c THEN at ELSE svLock.pc[d]],
     live |-> live]

(* start() from the lock's acquisition to its first await or its return:
   with a task that is not done it returns; otherwise _seed_history clears
   the ring buffer and the latest tick and awaits the provider. *)
LkStartEnter(c, waiters) ==
    IF StartGuard(svTask)
    THEN /\ SvStartNoop
         /\ svLock' = LockState(FALSE, waiters, c, "idle", svLock.live)
         /\ UNCHANGED <<svStopping, svLate, svSnap, svSnapAt>>
    ELSE /\ svRecent' = <<>>
         /\ svLatest' = None
         /\ svSeen' = <<>>
         /\ svLock' = LockState(TRUE, waiters, c, "backfill", svLock.live)
         /\ UNCHANGED <<heap, buffers, nCalls, svTask, svStopEvent, svCancel, svQuiet,
                        svLast, svStopping, svLate, svSnap, svSnapAt>>

(* stop() from the lock's acquisition to `await self._task` or its return *)
LkStopEnter(c, waiters) ==
    /\ SvStopStep
    /\ svLock' = IF svTask = "running"
                 THEN LockState(TRUE, waiters, c, "awaitTask", svLock.live)
                 ELSE LockState(FALSE, waiters, c, "idle", svLock.live)
    /\ UNCHANGED <<heap, buffers, nCalls>>

LkWait(c, at) ==
    /\ svLock' = LockState(svLock.locked, Append(svLock.waiters, c), c, at, svLock.live)
    /\ UNCHANGED <<heap, buffers, nCalls, svTask, svStopEvent, svCancel, svStopping,
                   svRecent, svLatest, svSeen, svQuiet, svLate, svLast, svSnap, svSnapAt>>

LkCallStart(c) ==
    /\ svLock.pc[c] = "idle"
    /\ IF LockFree(svLock) THEN LkStartEnter(c, svLock.waiters) ELSE LkWait(c, "waitStart")
    /\ UNCHANGED nonSvVars

LkCallStop(c) ==
    /\ svLock.pc[c] = "idle"
    /\ IF LockFree(svLock) THEN LkStopEnter(c, svLock.waiters) ELSE LkWait(c, "waitStop")
    /\ UNCHANGED nonSvVars

(* The lock was released and the first in line takes it. *)
LkResume(c) ==
    /\ svLock.pc[c] \in {"waitStart", "waitStop"}
    /\ ~svLock.locked
    /\ svLock.waiters # <<>>
    /\ Head(svLock.waiters) = c
    /\ IF svLock.pc[c] = "waitStart"
       THEN LkStartEnter(c, Tail(svLock.waiters))
       ELSE LkStopEnter(c, Tail(svLock.waiters))
    /\ UNCHANGED nonSvVars

(* The backfill of a start() is over: the candles are seeded and the task
   is made, or the failure is raised; the lock is released. *)
LkStartFinish(c, failAt, hist) ==
    /\ svLock.pc[c] = "backfill"
    /\ SvSeedAndLaunch(failAt, hist)
    /\ svLock' = LockState(FALSE, svLock.waiters, c, "idle",
                           svLock.live + (IF svLast'.created THEN 1 ELSE 0))
    /\ UNCHANGED <<svStopping, svLate, svSnap, svSnapAt>>
    /\ UNCHANGED nonSvVars

(* The task a stop() awaits is done: stop() forgets it, closes the
   provider and releases the lock. *)
LkStopFinish(c) ==
    /\ svLock.pc[c] = "awaitTask"
    /\ SvStopEndStep
    /\ svLock' = LockState(FALSE, svLock.waiters, c, "idle", svLock.live)
    /\ UNCHANGED <<aggVars, nonSvVars>>

(* The task ends: cancelled, or because its stream ended or raised. *)
LkTaskEnds ==
    /\ \/ SvTaskCancelledStep
       \/ SvStreamEndStep
       \/ SvStreamErrorStep
    /\ svLock' = [locked |-> svLock.locked, waiters |-> svLock.waiters,
                  pc |-> svLock.pc, live |-> svLock.live - 1]
    /\ UNCHANGED <<aggVars, nonSvVars>>

NextLock ==
    \/ \E c \in LockCallers : LkCallStart(c)
    \/ \E c \in LockCallers : LkCallStop(c)
    \/ \E c \in LockCallers : LkResume(c)
    \/ \E c \in LockCallers : \E failAt \in 0..1 : LkStartFinish(c, failAt, "none")
    \/ \E c \in LockCallers : LkStopFinish(c)
    \/ LkTaskEnds

SpecLock == Init /\ [][NextLock]_vars

(* The callers inside start() or stop(), past the lock *)
InsideLock == {c \in LockCallers : svLock.pc[c] \in {"backfill", "awaitTask"}}

(* C36: however calls of start() and stop() interleave, at most one task
   that is not done exists; at most one caller is inside start() or
   stop(); a start() that finds a task running makes none and changes
   nothing; and while a stop() awaits its task no start() is under way,
   as no stop() has begun while a start() backfills. *)
C36_OneTaskUnderEveryInterleaving ==
    /\ [](svLock.live <= 1)
    /\ [](svLock.live = IF svTask = "running" THEN 1 ELSE 0)
    /\ [](Cardinality(InsideLock) <= 1)
    /\ [](InsideLock # {} => svLock.locked)
    /\ [][(svLast'.op = "start" /\ svLast'.flip # svLast.flip /\ svTask = "running") =>
             /\ svLast'.wasRunning
             /\ ~svLast'.created
             /\ svLock'.live = svLock.live
             /\ UNCHANGED <<svTask, svRecent, svLatest, heap, buffers>>]_vars
    /\ [](svStopping => \A c \in LockCallers : svLock.pc[c] # "backfill")
    /\ []((\E c \in LockCallers : svLock.pc[c] = "backfill") =>
              /\ svTask # "running"
              /\ ~svCancel)

(* A stop() awaits the task it cancelled while a start() and another
   stop(), called meanwhile, wait for the lock. *)
C36_Witness ==
    /\ svLock.live = 1
    /\ \E c \in LockCallers : svLock.pc[c] = "awaitTask"
    /\ \E c \in LockCallers : svLock.pc[c] = "waitStart"
    /\ \E c \in LockCallers : svLock.pc[c] = "waitStop"

(* A start() backfills while two other calls of start() wait for the
   lock. *)
StartsQueueBehindStart ==
    /\ \E c \in LockCallers : svLock.pc[c] = "backfill"
    /\ Len(svLock.waiters) = 2
    /\ \A i \in DOMAIN svLock.waiters : svLock.pc[svLock.waiters[i]] = "waitStart"

============================================================================
